---- MODULE Spec2Model ----
(***************************************************************************)
(* Model of the browser-driven extraction pipeline of src/main.py:         *)
(* the download watcher (esperar_descarga_completa), context recovery      *)
(* (cerrar_modal_y_volver), the per-report attempt (descargar_reporte),    *)
(* the tenacity retry policies and the driver (ejecutar_extraccion).       *)
(*                                                                         *)
(* Time is counted in units of 1/Escala second, so that the 1.5x growth of *)
(* the polling interval (1, 1.5, 2.25, 3.375, 5.0625, 6 s) is exact.       *)
(***************************************************************************)
EXTENDS Integers, Sequences, FiniteSets, TLC

\* ---------------------------------------------------------------- bounds
\* Largest scheduling overshoot of one time.sleep, in whole seconds.
MaxJitter == 1
\* Popup windows that may be open at the same time during a run.
MaxPopups == 1
\* Window handles the recovery specification draws its sessions from.
MaxVentanas == 3
MaxAnios == 3
MaxFilas == 3

\* ------------------------------------------------------- program constants
Escala == 2 * 2 * 2 * 2
DOWNLOAD_TIMEOUT == 20
DOWNLOAD_CHECK_INTERVAL_MIN == 1
DOWNLOAD_CHECK_INTERVAL_MAX == 6

Min(a, b) == IF a <= b THEN a ELSE b
Max(a, b) == IF a >= b THEN a ELSE b

\* ------------------------------------------------------------ file names
\* A file name is a sequence of tokens; the last token is its last suffix.
aTxt == <<"a", ".txt">>
reportCsv == <<"report23", ".csv">>
reportCrdownload == <<"report23", ".csv", ".crdownload">>
reportPart == <<"report23", ".csv", ".part">>
otroTmp == <<"otro", ".tmp">>

\* Names the directory of the watcher specification ranges over.
WatchNames == {aTxt, reportCsv, reportCrdownload, reportPart, otroTmp}

\* Baselines (archivos_previos) the watcher specification starts from.
WatchBaselines == {{}, {aTxt}, {aTxt, reportCsv}}

\* str.endswith, on the token form of a name.
endswith(f, suf) == Len(f) > 0 /\ f[Len(f)] = suf

\* Variant of the filter that forgets the Firefox suffix.
NoEsTemporal_sinPart(f) ==
    /\ ~ endswith(f, ".crdownload")
    /\ ~ endswith(f, ".tmp")

\* The filter of the list comprehension at lines 326-331.
NoEsTemporal(f) ==
    /\ ~ endswith(f, ".crdownload")
    /\ ~ endswith(f, ".part")
    /\ ~ endswith(f, ".tmp")

\* A directory is a function from the names present to the file's size
\* (0 = empty, 1 = some bytes).
obtener_archivos_en_directorio(d) == DOMAIN d

\* Variant that filters the whole listing instead of the difference.
archivos_completos_sinBase(d, previos) ==
    {f \in obtener_archivos_en_directorio(d) : NoEsTemporal(f)}

\* archivos_completos of one tick of the watcher.
archivos_completos(d, previos) ==
    {f \in obtener_archivos_en_directorio(d) \ previos : NoEsTemporal(f)}

\* Variant of the growth without the cap.
SiguienteIntervalo_sinTope(i) == (i * 3) \div 2

\* min(intervalo * 1.5, DOWNLOAD_CHECK_INTERVAL_MAX), in time units.
SiguienteIntervalo(i) == Min((i * 3) \div 2, DOWNLOAD_CHECK_INTERVAL_MAX * Escala)

\* Variant of the loop condition that allows one more maximal interval.
DentroDelTimeout_tardio(t) ==
    t < (DOWNLOAD_TIMEOUT + DOWNLOAD_CHECK_INTERVAL_MAX) * Escala

\* The loop condition time.time() - tiempo_inicio < timeout.
DentroDelTimeout(t) == t < DOWNLOAD_TIMEOUT * Escala

\* ------------------------------------------------------------ exceptions
\* isinstance(exc, clase) for the exception classes the pipeline meets.
Superclases(exc) ==
    CASE exc = "TimeoutException" -> {"TimeoutException", "WebDriverException", "Exception"}
      [] exc = "NoSuchWindowException" -> {"NoSuchWindowException", "WebDriverException", "Exception"}
      [] exc = "NoSuchFrameException" -> {"NoSuchFrameException", "WebDriverException", "Exception"}
      [] exc = "NoSuchElementException" -> {"NoSuchElementException", "WebDriverException", "Exception"}
      [] exc = "WebDriverException" -> {"WebDriverException", "Exception"}
      [] exc = "TimeoutError" -> {"TimeoutError", "Exception"}
      [] exc = "IndexError" -> {"IndexError", "Exception"}
      [] exc = "RetryError" -> {"RetryError", "Exception"}
      [] exc = "OSError" -> {"OSError", "Exception"}   \* EnvironmentError is OSError
      [] exc = "PermissionError" -> {"PermissionError", "OSError", "Exception"}
      [] OTHER -> {"Exception"}

SinError == "ninguna"

\* What is still propagating after an `except clases:` clause whose body
\* does not raise.
Except(exc, clases) ==
    IF exc # SinError /\ Superclases(exc) \cap clases # {} THEN SinError ELSE exc

\* ------------------------------------------------------- tenacity policies
\* tenacity.wait_exponential(multiplier, min, max) with exp_base 2, called
\* with the number of the attempt that just failed:
\*   max(max(0, min), min(multiplier * 2 ** (attempt_number - 1), max)).
wait_exponential_sinMin(multiplier, min, max, attempt_number) ==
    Min(multiplier * 2 ^ (attempt_number - 1), max)

wait_exponential(multiplier, min, max, attempt_number) ==
    Max(Max(0, min), Min(multiplier * 2 ^ (attempt_number - 1), max))

\* Decorator of login_neotel (lines 535-542).
LoginPolicy == [stop |-> 3, multiplier |-> 2, min |-> 4, max |-> 40,
                retry |-> {"WebDriverException", "TimeoutException"}]
\* Decorator of navegar_a_reportes (lines 626-633).
NavPolicy == [stop |-> 3, multiplier |-> 2, min |-> 4, max |-> 30,
              retry |-> {"WebDriverException", "TimeoutException"}]
\* Decorator of descargar_reporte (lines 1030-1037).
ReportePolicy == [stop |-> 2, multiplier |-> 2, min |-> 10, max |-> 60,
                  retry |-> {"WebDriverException", "TimeoutException", "TimeoutError"}]

\* Variant that never gives up on a retryable error.
Tenacity_sinStop(policy, exc, attempt_number) ==
    IF Superclases(exc) \cap policy.retry = {} THEN "reraise"
    ELSE "retry"

\* retry_if_exception_type(policy.retry) and stop_after_attempt(policy.stop):
\* "retry", "RetryError" (budget exhausted) or "reraise" (not retryable).
Tenacity(policy, exc, attempt_number) ==
    IF Superclases(exc) \cap policy.retry = {} THEN "reraise"
    ELSE IF attempt_number >= policy.stop THEN "RetryError"
    ELSE "retry"

\* Variant that sleeps the backoff after every failed attempt.
Espera_siempre(policy, exc, attempt_number) ==
    wait_exponential(policy.multiplier, policy.min, policy.max, attempt_number)

\* The backoff the retry wrapper sleeps after an attempt failed with exc:
\* the policy's wait when another attempt follows, none otherwise.
Espera(policy, exc, attempt_number) ==
    IF Tenacity(policy, exc, attempt_number) = "retry"
    THEN wait_exponential(policy.multiplier, policy.min, policy.max, attempt_number)
    ELSE 0

\* REPORTES (lines 94-97), by id.
REPORTES == <<"23", "24">>

\* ------------------------------------------------------------ the browser
\* A browser state b: handles (open windows, oldest first), actual (the
\* session's current window, possibly closed), enFrame (inside a frame).
VentanaOriginal == 0

Quitar(seq, h) == SelectSeq(seq, LAMBDA x : x # h)
Abierta(b, h) == \E i \in 1..Len(b.handles) : b.handles[i] = h

\* Exception a WebDriver command raises in state b, or SinError.
ErrorDe(cmd, b) ==
    CASE cmd.op = "window_handles" -> SinError
      [] cmd.op = "switch_to.window" ->
            IF Abierta(b, cmd.h) THEN SinError ELSE "NoSuchWindowException"
      [] cmd.op = "switch_to.window(window_handles[0])" ->
            IF Len(b.handles) > 0 THEN SinError ELSE "IndexError"
      [] OTHER ->  \* close, default_content, wait_modal: need the current window
            IF Abierta(b, b.actual) THEN SinError ELSE "NoSuchWindowException"

\* Effect of a WebDriver command that did not raise.
Aplicar(cmd, b) ==
    CASE cmd.op = "switch_to.window" -> [b EXCEPT !.actual = cmd.h, !.enFrame = FALSE]
      [] cmd.op = "switch_to.window(window_handles[0])" ->
            [b EXCEPT !.actual = b.handles[1], !.enFrame = FALSE]
      [] cmd.op = "close" -> [b EXCEPT !.handles = Quitar(b.handles, b.actual)]
      [] cmd.op = "default_content" -> [b EXCEPT !.enFrame = FALSE]
      [] OTHER -> b

\* Runs cmds[i..] in order until one raises; fallaEn is the index of a
\* command that fails for a reason of its own (disconnect, timeout of the
\* driver), 0 for none.
RECURSIVE Ejecutar(_, _, _, _)
Ejecutar(cmds, b, i, fallaEn) ==
    IF i > Len(cmds) THEN [b |-> b, exc |-> SinError]
    ELSE IF ErrorDe(cmds[i], b) # SinError THEN [b |-> b, exc |-> ErrorDe(cmds[i], b)]
    ELSE IF i = fallaEn THEN [b |-> b, exc |-> "WebDriverException"]
    ELSE Ejecutar(cmds, Aplicar(cmds[i], b), i + 1, fallaEn)

\* Lines 998-1001: switch to and close every handle but handle_original.
RECURSIVE CerrarOtras(_, _, _)
CerrarOtras(hs, i, handle_original) ==
    IF i > Len(hs) THEN <<>>
    ELSE (IF hs[i] # handle_original
          THEN <<[op |-> "switch_to.window", h |-> hs[i]], [op |-> "close"]>>
          ELSE <<>>) \o CerrarOtras(hs, i + 1, handle_original)

\* Variant of the try block that closes every window, the baseline too.
ComandosCierre_cierraTodas(b, handle_original) ==
    <<[op |-> "window_handles"]>> \o
    (IF Len(b.handles) > 1
     THEN CerrarOtras(b.handles, 1, -1)
            \o <<[op |-> "switch_to.window", h |-> handle_original]>>
     ELSE <<[op |-> "default_content"]>>)
    \o <<[op |-> "wait_modal"]>>

\* Lines 994-1019: the commands of the try block of cerrar_modal_y_volver.
ComandosCierre(b, handle_original) ==
    <<[op |-> "window_handles"]>> \o
    (IF Len(b.handles) > 1
     THEN CerrarOtras(b.handles, 1, handle_original)
            \o <<[op |-> "switch_to.window", h |-> handle_original]>>
     ELSE <<[op |-> "default_content"]>>)
    \o <<[op |-> "wait_modal"]>>

\* Lines 1024-1025: the commands of the fallback.
ComandosFallback ==
    <<[op |-> "default_content"], [op |-> "switch_to.window(window_handles[0])"]>>

\* Variant whose fallback is not wrapped in a try of its own.
cerrar_modal_y_volver_sinTryInterno(b, handle_original, falla1, falla2) ==
    LET r1 == Ejecutar(ComandosCierre(b, handle_original), b, 1, falla1) IN
    IF Except(r1.exc, {"Exception"}) = r1.exc
    THEN [b |-> r1.b, exc |-> r1.exc, fallback |-> FALSE, interno |-> SinError]
    ELSE LET r2 == Ejecutar(ComandosFallback, r1.b, 1, falla2) IN
         [b |-> r2.b, exc |-> r2.exc, fallback |-> TRUE, interno |-> r2.exc]

\* cerrar_modal_y_volver (lines 985-1027): the try block, `except Exception`
\* around it, and the fallback under its own `except Exception: pass`.
\* Returns the browser state and the exception leaving the call.
cerrar_modal_y_volver(b, handle_original, falla1, falla2) ==
    LET r1 == Ejecutar(ComandosCierre(b, handle_original), b, 1, falla1) IN
    IF Except(r1.exc, {"Exception"}) = r1.exc
    THEN [b |-> r1.b, exc |-> r1.exc, fallback |-> FALSE, interno |-> SinError]
    ELSE LET r2 == Ejecutar(ComandosFallback, r1.b, 1, falla2) IN
         [b |-> r2.b, exc |-> Except(r2.exc, {"Exception"}), fallback |-> TRUE,
          interno |-> r2.exc]

\* Positions at which a command of the try block / of the fallback may fail
\* for a reason of its own (0: none does).
Fallas1(b, handle_original) == 0..Len(ComandosCierre(b, handle_original))
Fallas2 == 0..Len(ComandosFallback)

\* ------------------------------------------------------------------ dates
\* A calendar date is a record [a, m, d]. datetime arithmetic goes through
\* proleptic Gregorian ordinals (day 1 is 0001-01-01).
DiasAntesDelMes == <<0, 31, 59, 90, 120, 151, 181, 212, 243, 273, 304, 334>>
DiasEnMes == <<31, 28, 31, 30, 31, 30, 31, 31, 30, 31, 30, 31>>

es_bisiesto(a) == a % 4 = 0 /\ (a % 100 # 0 \/ a % 400 = 0)

dias_antes_del_anio(a) ==
    (a - 1) * 365 + (a - 1) \div 4 - (a - 1) \div 100 + (a - 1) \div 400

dias_antes_del_mes(a, m) ==
    DiasAntesDelMes[m] + (IF m > 2 /\ es_bisiesto(a) THEN 1 ELSE 0)

\* date.toordinal()
toordinal(f) == dias_antes_del_anio(f.a) + dias_antes_del_mes(f.a, f.m) + f.d

\* date.fromordinal(n): the 400 / 100 / 4 / 1 year cycles.
fromordinal(n) ==
    LET n0 == n - 1
        n400 == n0 \div 146097
        r400 == n0 % 146097
        n100 == r400 \div 36524
        r100 == r400 % 36524
        n4 == r100 \div 1461
        r4 == r100 % 1461
        n1 == r4 \div 365
        r1 == r4 % 365
        anio == n400 * 400 + 1 + n100 * 100 + n4 * 4 + n1
    IN IF n1 = 4 \/ n100 = 4
       THEN [a |-> anio - 1, m |-> 12, d |-> 31]
       ELSE LET bisiesto == n1 = 3 /\ (n4 # 24 \/ n100 = 3)
                m0 == (r1 + 50) \div 32
                previos0 == DiasAntesDelMes[m0] + (IF m0 > 2 /\ bisiesto THEN 1 ELSE 0)
                mes == IF previos0 > r1 THEN m0 - 1 ELSE m0
                previos == IF previos0 > r1
                           THEN previos0 - (DiasEnMes[mes]
                                            + (IF mes = 2 /\ bisiesto THEN 1 ELSE 0))
                           ELSE previos0
            IN [a |-> anio, m |-> mes, d |-> r1 - previos + 1]

Digitos == <<"0", "1", "2", "3", "4", "5", "6", "7", "8", "9">>
Digito(n) == Digitos[n + 1]
ValorDe(c) == CHOOSE n \in 0..9 : Digitos[n + 1] = c
DosDigitos(n) == <<Digito(n \div 10), Digito(n % 10)>>
CuatroDigitos(n) ==
    <<Digito(n \div 1000), Digito((n \div 100) % 10), Digito((n \div 10) % 10),
      Digito(n % 10)>>

\* Variant of the format with the month first.
strftime_mesPrimero(f) ==
    DosDigitos(f.m) \o <<"/">> \o DosDigitos(f.d) \o <<"/">> \o CuatroDigitos(f.a)

\* strftime("%d/%m/%Y") (line 207), as the characters of the text.
strftime(f) ==
    DosDigitos(f.d) \o <<"/">> \o DosDigitos(f.m) \o <<"/">> \o CuatroDigitos(f.a)

\* calcular_fecha_ayer (lines 201-209) when datetime.now() falls on date hoy:
\* now - timedelta(days=1), formatted.
calcular_fecha_ayer(h) == strftime(fromordinal(toordinal(h) - 1))

SinFecha == [a |-> 0, m |-> 0, d |-> 0]

\* datetime.strptime(texto, "%d/%m/%Y") (line 1527): the date, or
\* ValueError when the text is not a valid date in that format.
strptime(texto) ==
    IF /\ Len(texto) = 10
       /\ texto[3] = "/" /\ texto[6] = "/"
       /\ \A i \in {1, 2, 4, 5, 7, 8, 9, 10} :
             \E n \in 0..9 : Digitos[n + 1] = texto[i]
    THEN LET d == ValorDe(texto[1]) * 10 + ValorDe(texto[2])
             m == ValorDe(texto[4]) * 10 + ValorDe(texto[5])
             a == ValorDe(texto[7]) * 1000 + ValorDe(texto[8]) * 100
                  + ValorDe(texto[9]) * 10 + ValorDe(texto[10])
         IN IF /\ a >= 1 /\ m \in 1..12 /\ d >= 1
               /\ d <= DiasEnMes[m] + (IF m = 2 /\ es_bisiesto(a) THEN 1 ELSE 0)
            THEN [exc |-> SinError, fecha |-> [a |-> a, m |-> m, d |-> d]]
            ELSE [exc |-> "ValueError", fecha |-> SinFecha]
    ELSE [exc |-> "ValueError", fecha |-> SinFecha]

\* ------------------------------------------------------------------- load
\* A destination table is the sequence of the fecha values of its rows; a
\* DataFrame likewise.
\* cargar_dataframe_pyodbc (lines 1500-1578): nothing for an empty frame;
\* otherwise DELETE the rows whose fecha is the filter date (the text itself
\* when it does not parse, lines 1526-1530), then INSERT every row.
cargar_dataframe_pyodbc(tabla, df, fecha_filtro) ==
    IF df = <<>> THEN tabla
    ELSE IF strptime(fecha_filtro).exc # SinError
    THEN tabla \o df        \* no DATE equals a text that is not a date
    ELSE LET fecha_iso == strptime(fecha_filtro).fecha
         IN SelectSeq(tabla, LAMBDA fila : fila # fecha_iso) \o df

VARIABLES
    dir,                \* the download directory: name -> size
    archivos_previos,   \* baseline snapshot the watcher diffs against
    wpc,                \* watcher position: idle, check, sleep, returned, timeout
    tiempo,             \* time.time() - tiempo_inicio
    intervalo,          \* current polling interval
    archivo_descargado, \* the watcher's / the attempt's chosen file name
    nchecks,            \* directory checks made by the current watcher call
    estables,           \* history: names that turned into a new, complete,
                        \* non-empty file while tiempo < timeout and stayed so
    pc,                 \* position of ejecutar_extraccion
    navegador,          \* browser state [handles, actual, enFrame]
    enReportes,         \* windows whose page is the report list
    popupPendiente,     \* the execute click will still open a popup
    idx,                \* index in REPORTES of the report being resolved
    intento,            \* attempt number of descargar_reporte (tenacity)
    handle_original,    \* local of descargar_reporte (line 1071)
    handles_iniciales,  \* local of manejar_modal_parametros (line 789)
    loginIntento,       \* attempt number of login_neotel
    esperas,            \* waits slept by the login policy, in seconds
    navIntento,         \* attempt number of navegar_a_reportes
    navLlamada,         \* which call of navegar_a_reportes is running
    archivos_descargados, \* list built by ejecutar_extraccion
    descargas,          \* downloads requested from the console
    error,              \* exception propagating in / out of the attempt
    recuperaciones,     \* calls of cerrar_modal_y_volver in this attempt
    rechecks,           \* late snapshots taken in this attempt
    recheckVacio,       \* the late snapshot showed no new file
    intentados,         \* reports for which descargar_reporte was invoked
    ultimaRec,          \* what the last cerrar_modal_y_volver call met
    entorno,            \* the environment after load_dotenv: secret -> state
    driver,             \* local of ejecutar_extraccion: "None" or "sesion"
    quits,              \* calls of driver.quit()
    sys_exit,           \* <<>> while the process runs, <<code>> once it ended
    hay_datos,          \* local of main: sin_evaluar, si, no
    resumen_carga,      \* ejecutar_carga: sin_invocar, ok, error
    resultados,         \* history: the outcome of each resolved report
    ultimaDecision,     \* what the retry wrapper did on the last failure
    pasos,              \* history: the steps this attempt has run, with outcome
    handles_al_click,   \* history: windows open when the trigger was clicked
    hoy,                \* the date datetime.now() falls on
    fecha_ayer,         \* local of main: the business date, as text
    bd,                 \* the load on its own: table, frame, runs
    sel,                \* seleccionar_fila_reporte on its own
    modal,              \* manejar_modal_parametros on its own, step by step
    login,              \* one attempt of login_neotel on its own
    capturas,           \* a failure of each kind, and what was captured for it
    spinners            \* the indicator waits made, by call site

wloop == <<wpc, tiempo, intervalo, nchecks>>

pvars == <<pc, navegador, enReportes, popupPendiente, idx, intento,
           handle_original, handles_iniciales, loginIntento, esperas,
           navIntento, navLlamada, archivos_descargados, descargas, error,
           recuperaciones, rechecks, recheckVacio, intentados, ultimaRec,
           entorno, driver, quits, sys_exit, hay_datos, resumen_carga,
           resultados, ultimaDecision, pasos, handles_al_click,
           hoy, fecha_ayer, bd, sel, modal, login, capturas, spinners>>

\* The handlers and waits that are exercised on their own.
avars == <<login, capturas, spinners>>

\* The functions that are exercised on their own.
uvars == <<hoy, fecha_ayer, bd, sel, modal, avars>>

\* The state of main and the bookkeeping of the run.
mvars == <<entorno, driver, quits, sys_exit, hay_datos, resumen_carga,
           resultados, ultimaDecision>>

vars == <<dir, archivos_previos, wpc, tiempo, intervalo, archivo_descargado,
          nchecks, estables, pvars>>

Ninguno == <<>>

\* Overshoots of time.sleep(intervalo) plus the loop body's own duration.
\* They are explored where the watcher runs on its own; inside the run of
\* the whole pipeline every sleep is taken to last exactly its interval.
Jitters == IF pc = "watcher" THEN {k * Escala : k \in 0..MaxJitter} ELSE {0}

\* Names that are, in directory d, a new complete file of non-zero size.
Calificados(d, previos) == {f \in archivos_completos(d, previos) : d[f] > 0}

\* The three partial-download suffixes of lines 328-330, as the history
\* bookkeeping below reads them off a name (its last token).
SufijosParciales == {".crdownload", ".part", ".tmp"}

\* The names of directory d that are not in the baseline and carry no
\* partial-download suffix, read directly off the directory.
NuevosSinSufijo(d, previos) ==
    {f \in (DOMAIN d) \ previos : f[Len(f)] \notin SufijosParciales}

\* A new name with a partial-download suffix is showing in directory d.
HayParcialNuevo(d, previos) ==
    \E f \in (DOMAIN d) \ previos : f[Len(f)] \in SufijosParciales

\* History bookkeeping after the directory changed from dir to d: estables
\* holds the name of the one new non-suffixed file, once it has non-zero
\* size, if it showed up after a partial name, at an instant before the
\* timeout, and for as long as it stays the only new non-suffixed file.
NuevosEstables(d) ==
    IF Cardinality(NuevosSinSufijo(d, archivos_previos)) # 1
    THEN {}
    ELSE {f \in NuevosSinSufijo(d, archivos_previos) :
            /\ d[f] > 0
            /\ \/ f \in estables
               \/ /\ wpc \in {"check", "sleep"}
                  /\ tiempo < DOWNLOAD_TIMEOUT * Escala
                  /\ HayParcialNuevo(dir, archivos_previos)}

\* ------------------------------------------------------------------------
\* esperar_descarga_completa
\* ------------------------------------------------------------------------

\* Lines 315-319: entry of the watcher.
IniciarEspera ==
    /\ wpc' = "check"
    /\ tiempo' = 0
    /\ intervalo' = DOWNLOAD_CHECK_INTERVAL_MIN * Escala
    /\ nchecks' = 0
    /\ archivo_descargado' = Ninguno

\* Lines 321-340: the loop test and one directory check.
WatchCheck ==
    /\ wpc = "check"
    /\ DentroDelTimeout(tiempo)
    /\ nchecks' = nchecks + 1
    /\ LET completos == archivos_completos(dir, archivos_previos) IN
         IF completos # {}
         THEN \E f \in completos :      \* archivos_completos[0]: set order
                IF dir[f] > 0
                THEN /\ wpc' = "returned"
                     /\ archivo_descargado' = f
                ELSE /\ wpc' = "sleep"
                     /\ UNCHANGED archivo_descargado
         ELSE /\ wpc' = "sleep"
              /\ UNCHANGED archivo_descargado
    /\ UNCHANGED <<dir, archivos_previos, tiempo, intervalo, estables, pvars>>

\* Lines 342-345: time.sleep(intervalo) and the growth of the interval.
WatchSleep ==
    /\ wpc = "sleep"
    /\ \E j \in Jitters : tiempo' = tiempo + intervalo + j
    /\ intervalo' = SiguienteIntervalo(intervalo)
    /\ wpc' = "check"
    /\ UNCHANGED <<dir, archivos_previos, archivo_descargado, nchecks, estables, pvars>>

\* Line 347: the loop test failed, TimeoutError is raised.
WatchTimeout ==
    /\ wpc = "check"
    /\ ~ DentroDelTimeout(tiempo)
    /\ wpc' = "timeout"
    /\ UNCHANGED <<dir, archivos_previos, tiempo, intervalo, archivo_descargado,
                   nchecks, estables, pvars>>

\* The pipeline variables while only the watcher is exercised.
NavegadorInicial == [handles |-> <<VentanaOriginal>>, actual |-> VentanaOriginal,
                     enFrame |-> FALSE]
\* The required secrets read at import (lines 81-87), in order.
SecretosEnOrden == <<"NEOTEL_USER", "NEOTEL_PASS", "SQL_SERVER", "SQL_DATABASE",
                     "SQL_USER", "SQL_PASSWORD">>
Secretos == {SecretosEnOrden[i] : i \in 1..Len(SecretosEnOrden)}

\* obtener_variable_entorno (lines 55-73): os.getenv gives None for an
\* absent name; `not valor` holds for None and for the empty string.
obtener_variable_entorno(env, nombre, obligatoria) ==
    IF obligatoria /\ env[nombre] \in {"ausente", "vacia"}
    THEN [exc |-> "OSError", valor |-> ""]
    ELSE [exc |-> SinError, valor |-> IF env[nombre] = "valor" THEN "valor" ELSE ""]

\* The date of the run of the whole pipeline.
HoyDeLaCorrida == [a |-> 2024, m |-> 3, d |-> 1]

BdEnReposo == [tabla |-> <<>>, df |-> <<>>, cargas |-> 0, filas_una |-> 0]
SelEnReposo == [pos |-> "reposo", resultado |-> "ninguno", dom_ok |-> FALSE,
                ret |-> FALSE, dom |-> FALSE, exc |-> SinError]
ModalEnReposo ==
    [pos |-> "reposo", ctx |-> "ninguno", intentos |-> 0, params_ok |-> FALSE,
     tras_exito |-> 0, fechas_hecho |-> FALSE, fechas |-> 0,
     inv_tras_fecha |-> FALSE, i |-> 1, probados |-> <<>>, emitidos |-> 0,
     logrados |-> 0, primero |-> 0, usado |-> 0, boton_clickeado |-> FALSE,
     ret |-> "ninguno", exc |-> SinError]

\* The functions exercised on their own are at rest.
LoginEnReposo ==
    [pos |-> "reposo", get_ok |-> TRUE, nombre |-> TRUE, indice |-> TRUE,
     atributo |-> TRUE, cred_ok |-> TRUE, probadas |-> <<>>, frame |-> 0,
     credenciales |-> FALSE, captura |-> FALSE, exc |-> SinError]
CapturasEnReposo ==
    [pos |-> "reposo", op |-> "ninguna", donde |-> "ninguno", eventos |-> <<>>,
     nombre |-> "", exc |-> SinError]
SpinnersEnReposo == <<>>

AuxEnReposo ==
    /\ login = LoginEnReposo
    /\ capturas = CapturasEnReposo
    /\ spinners = SpinnersEnReposo

UnidadesEnReposo ==
    /\ bd = BdEnReposo
    /\ sel = SelEnReposo
    /\ modal = ModalEnReposo
    /\ AuxEnReposo

SinDecision == [op |-> "ninguna", exc |-> SinError, intento |-> 0, espera |-> 0]

SinRec == [llamada |-> FALSE, variasVentanas |-> FALSE, actualAbierta |-> TRUE,
           fallaPropia |-> FALSE, fallback |-> FALSE, interno |-> SinError,
           exc |-> SinError]

RestoEnReposo ==
    /\ enReportes = {VentanaOriginal}
    /\ popupPendiente = FALSE
    /\ idx = 1
    /\ intento = 1
    /\ handles_iniciales = {VentanaOriginal}
    /\ loginIntento = 1
    /\ esperas = <<>>
    /\ navIntento = 1
    /\ navLlamada = "inicial"
    /\ archivos_descargados = <<>>
    /\ descargas = <<>>
    /\ error = SinError
    /\ recuperaciones = 0
    /\ rechecks = 0
    /\ recheckVacio = FALSE
    /\ intentados = {1}
    /\ ultimaRec = SinRec
    /\ entorno = [s \in Secretos |-> "valor"]
    /\ driver = "sesion"
    /\ quits = 0
    /\ sys_exit = <<>>
    /\ hay_datos = "sin_evaluar"
    /\ resumen_carga = "sin_invocar"
    /\ resultados = <<>>
    /\ ultimaDecision = SinDecision
    /\ pasos = <<>>
    /\ handles_al_click = {}

PipelineEnReposo ==
    /\ pc = "watcher"
    /\ navegador = NavegadorInicial
    /\ handle_original = VentanaOriginal
    /\ RestoEnReposo

\* ------------------------------------------------------------------------
\* The watcher on its own, over every sequence of directory states
\* ------------------------------------------------------------------------

\* The directory changes by one name: it appears (empty or not), changes
\* size or disappears.
EnvDir ==
    /\ wpc \in {"check", "sleep"}
    /\ \E n \in WatchNames, s \in {"absent", "empty", "full"} :
         LET d == IF s = "absent"
                  THEN [f \in (DOMAIN dir) \ {n} |-> dir[f]]
                  ELSE [f \in (DOMAIN dir) \cup {n} |->
                          IF f = n THEN (IF s = "empty" THEN 0 ELSE 1) ELSE dir[f]]
         IN /\ d # dir
            /\ dir' = d
            /\ estables' = NuevosEstables(d)
    /\ UNCHANGED <<archivos_previos, wpc, tiempo, intervalo, archivo_descargado,
                   nchecks, pvars>>

InitWatch ==
    /\ archivos_previos \in WatchBaselines
    /\ dir = [f \in archivos_previos |-> 1]
    /\ wpc = "check"
    /\ tiempo = 0
    /\ intervalo = DOWNLOAD_CHECK_INTERVAL_MIN * Escala
    /\ nchecks = 0
    /\ archivo_descargado = Ninguno
    /\ estables = {}
    /\ PipelineEnReposo
    /\ UnidadesEnReposo
    /\ hoy = HoyDeLaCorrida
    /\ fecha_ayer = calcular_fecha_ayer(hoy)

NextWatch == WatchCheck \/ WatchSleep \/ WatchTimeout \/ EnvDir

SpecWatch == InitWatch /\ [][NextWatch]_vars

\* The watcher is the running thread: its steps are taken as time advances.
SpecWatchFair == SpecWatch /\ WF_vars(WatchCheck \/ WatchSleep \/ WatchTimeout)

\* ------------------------------------------------------------------------
\* The remote console and the browser's download manager (environment)
\* ------------------------------------------------------------------------
Stems == <<"d1", "d2", "d3", "d4", "d5", "d6">>
NombreParcial(d) == <<Stems[d], ".csv", ".crdownload">>
NombreFinal(d) == <<Stems[d], ".csv">>

Con(d, n, s) == [f \in (DOMAIN d) \cup {n} |-> IF f = n THEN s ELSE d[f]]
Sin(d, n) == [f \in (DOMAIN d) \ {n} |-> d[f]]

\* A requested download starts (Chrome creates the .crdownload file) or
\* completes (Chrome renames it to its final name).
\* The directory is read at lines 1083, 322 and 1094 only, so a change is
\* placed right before one of these reads.
DescargaAvanza ==
    /\ \/ pc = "snapshot"
       \/ pc = "esperando" /\ wpc \in {"check", "timeout"}
    /\ \E d \in 1..Len(descargas) :
         \/ /\ descargas[d].estado = "pendiente"
            /\ descargas' = [descargas EXCEPT ![d].estado = "parcial"]
            /\ dir' = Con(dir, NombreParcial(d), 1)
         \/ /\ descargas[d].estado = "parcial"
            /\ descargas' = [descargas EXCEPT ![d].estado = "completa"]
            /\ dir' = Con(Sin(dir, NombreParcial(d)), NombreFinal(d), 1)
    /\ UNCHANGED <<archivos_previos, wloop, archivo_descargado, estables, pc,
                   navegador, enReportes, popupPendiente, idx, intento,
                   handle_original, handles_iniciales, loginIntento, esperas,
                   navIntento, navLlamada, archivos_descargados, error,
                   recuperaciones, rechecks, recheckVacio, intentados, ultimaRec, mvars,
                   pasos, handles_al_click, uvars>>

\* A handle for a new window: one that names no window the session or the
\* attempt still refers to.
NuevaVentana ==
    CHOOSE h \in 1..(MaxPopups + 3) :
        /\ ~ Abierta(navegador, h)
        /\ h \notin {navegador.actual, handle_original}
        /\ \A k \in 1..(h - 1) :
              Abierta(navegador, k) \/ k \in {navegador.actual, handle_original}

\* The console answers the execute click by opening a popup window.
PopupAbre ==
    /\ popupPendiente
    /\ pc \in {"modal", "modal_espera"}
    /\ Len(navegador.handles) <= MaxPopups
    /\ navegador' = [navegador EXCEPT !.handles = Append(@, NuevaVentana)]
    /\ popupPendiente' = FALSE
    /\ UNCHANGED <<dir, archivos_previos, wloop, archivo_descargado, estables, pc,
                   enReportes, idx, intento, handle_original, handles_iniciales,
                   loginIntento, esperas, navIntento, navLlamada,
                   archivos_descargados, descargas, error, recuperaciones,
                   rechecks, recheckVacio, intentados, ultimaRec, mvars,
                   pasos, handles_al_click, uvars>>

\* A popup window closes by itself once the report has been requested.
PopupCierra ==
    /\ pc = "esperando"
    /\ wpc \in {"returned", "timeout"}
    /\ \E i \in 1..Len(navegador.handles) :
         /\ navegador.handles[i] # VentanaOriginal
         /\ navegador' = [navegador EXCEPT !.handles = Quitar(@, navegador.handles[i])]
    /\ UNCHANGED <<dir, archivos_previos, wloop, archivo_descargado, estables, pc,
                   enReportes, popupPendiente, idx, intento,
                   handle_original, handles_iniciales, loginIntento, esperas,
                   navIntento, navLlamada, archivos_descargados, descargas, error,
                   recuperaciones, rechecks, recheckVacio, intentados, ultimaRec, mvars,
                   pasos, handles_al_click, uvars>>

\* The original window leaves the report-list page (session expiry, redirect).
PaginaSale ==
    /\ \/ pc = "seleccionar"
       \/ pc = "esperando" /\ wpc \in {"returned", "timeout"}
    /\ VentanaOriginal \in enReportes
    /\ enReportes' = enReportes \ {VentanaOriginal}
    /\ UNCHANGED <<dir, archivos_previos, wloop, archivo_descargado, estables, pc,
                   navegador, popupPendiente, idx, intento,
                   handle_original, handles_iniciales, loginIntento, esperas,
                   navIntento, navLlamada, archivos_descargados, descargas, error,
                   recuperaciones, rechecks, recheckVacio, intentados, ultimaRec, mvars,
                   pasos, handles_al_click, uvars>>

\* ------------------------------------------------------------------------
\* ejecutar_extraccion: session start, login, navigation
\* ------------------------------------------------------------------------
wIdle == /\ wpc' = "idle"
         /\ tiempo' = 0
         /\ intervalo' = DOWNLOAD_CHECK_INTERVAL_MIN * Escala
         /\ nchecks' = 0


\* Lines 81-87, run when the module is loaded, before main is called: an
\* exception raised here is caught by nothing and the interpreter ends the
\* process with status 1 after printing the traceback.
RECURSIVE PrimerFaltante(_, _)
PrimerFaltante(env, i) ==
    IF i > Len(SecretosEnOrden) THEN SinError
    ELSE IF obtener_variable_entorno(env, SecretosEnOrden[i], TRUE).exc # SinError
    THEN obtener_variable_entorno(env, SecretosEnOrden[i], TRUE).exc
    ELSE PrimerFaltante(env, i + 1)

Importar ==
    /\ pc = "import"
    /\ IF PrimerFaltante(entorno, 1) = SinError
       THEN /\ pc' = "main"
            /\ UNCHANGED <<error, sys_exit>>
       ELSE /\ error' = PrimerFaltante(entorno, 1)
            /\ sys_exit' = <<1>>
            /\ pc' = "salida"
    /\ UNCHANGED <<dir, archivos_previos, wloop, archivo_descargado, estables,
                   navegador, enReportes, popupPendiente, idx, intento,
                   handle_original, handles_iniciales, loginIntento, esperas,
                   navIntento, navLlamada, archivos_descargados, descargas,
                   recuperaciones, rechecks, recheckVacio, intentados, ultimaRec,
                   entorno, driver, quits, hay_datos, resumen_carga, resultados,
                   ultimaDecision,
                   pasos, handles_al_click, uvars>>

\* Lines 1660-1666 of main and 1136-1137 of ejecutar_extraccion:
\* limpiar_directorio_descargas runs before the try block; iterdir and mkdir
\* are not guarded (lines 220-232), so an OSError leaves ejecutar_extraccion
\* with no browser started.
LimpiarDirectorio ==
    /\ pc = "main"
    /\ fecha_ayer' = calcular_fecha_ayer(hoy)
    /\ \E exc \in {SinError, "PermissionError"} :
         /\ error' = exc
         /\ pc' = IF exc = SinError THEN "inicio" ELSE "abortado"
    /\ UNCHANGED <<dir, archivos_previos, wloop, archivo_descargado, estables,
                   navegador, enReportes, popupPendiente, idx, intento,
                   handle_original, handles_iniciales, loginIntento, esperas,
                   navIntento, navLlamada, archivos_descargados, descargas,
                   recuperaciones, rechecks, recheckVacio, intentados, ultimaRec,
                   mvars,
                   pasos, handles_al_click, hoy, bd, sel, modal, avars>>

\* Lines 1143-1145: webdriver.Chrome(...); failure to start is fatal and
\* leaves driver unset.
IniciarNavegador ==
    /\ pc = "inicio"
    /\ \E ok \in BOOLEAN :
         IF ok THEN /\ driver' = "sesion"
                    /\ pc' = "login"
                    /\ UNCHANGED error
               ELSE /\ error' = "WebDriverException"
                    /\ pc' = "fatal"
                    /\ UNCHANGED driver
    /\ UNCHANGED <<dir, archivos_previos, wloop, archivo_descargado, estables,
                   navegador, enReportes, popupPendiente, idx, intento,
                   handle_original, handles_iniciales, loginIntento, esperas,
                   navIntento, navLlamada, archivos_descargados, descargas,
                   recuperaciones, rechecks, recheckVacio, intentados, ultimaRec,
                   entorno, quits, sys_exit, hay_datos, resumen_carga,
                   resultados, ultimaDecision,
                   pasos, handles_al_click, uvars>>


\* What the retry wrapper of operation op did after attempt n failed with exc.
Decision(op, policy, exc, n) ==
    [op |-> op, exc |-> exc, intento |-> n, espera |-> Espera(policy, exc, n)]

\* The exception that leaves a retry-wrapped call that is not retried.
Propagada(policy, exc, n) ==
    IF Tenacity(policy, exc, n) = "RetryError" THEN "RetryError" ELSE exc

\* Errors an attempt of login or navigation meets: a wait that times out, a
\* failed WebDriver command, or the loss of the connection to the driver
\* process (urllib3's MaxRetryError, not a WebDriverException).
ErroresDeComando == {"TimeoutException", "WebDriverException", "MaxRetryError"}

\* Lines 535-623 and 1148: one attempt of login_neotel under its policy.
LoginIntento ==
    /\ pc = "login"
    /\ \E exc \in {SinError} \cup ErroresDeComando :
         IF exc = SinError
         THEN \* the retry state of the call is dropped on return
              /\ pc' = "nav"
              /\ loginIntento' = 1
              /\ esperas' = <<>>
              /\ ultimaDecision' = SinDecision
              /\ UNCHANGED error
         ELSE LET t == Tenacity(LoginPolicy, exc, loginIntento) IN
              /\ ultimaDecision' = Decision("login", LoginPolicy, exc, loginIntento)
              /\ IF t = "retry"
                 THEN /\ esperas' = Append(esperas,
                             wait_exponential(LoginPolicy.multiplier, LoginPolicy.min,
                                              LoginPolicy.max, loginIntento))
                      /\ loginIntento' = loginIntento + 1
                      /\ pc' = "login"
                      /\ UNCHANGED error
                 ELSE /\ pc' = "fatal"
                      /\ error' = Propagada(LoginPolicy, exc, loginIntento)
                      /\ UNCHANGED <<loginIntento, esperas>>
    /\ UNCHANGED <<dir, archivos_previos, wloop, archivo_descargado, estables,
                   navegador, enReportes, popupPendiente, idx, intento,
                   handle_original, handles_iniciales, navIntento, navLlamada,
                   archivos_descargados, descargas, recuperaciones,
                   rechecks, recheckVacio, intentados, ultimaRec,
                   entorno, driver, quits, sys_exit, hay_datos, resumen_carga,
                   resultados,
                   pasos, handles_al_click, uvars>>


\* Variant of the loop step that stays on the same report.
Siguiente_repite ==
    /\ idx' = idx
    /\ intento' = 1
    /\ pc' = "rep_inicio"

\* The for loop of lines 1154-1167 moves to the next report, or ends.
Siguiente ==
    /\ idx' = idx + 1
    /\ intento' = 1
    /\ pc' = IF idx + 1 > Len(REPORTES) THEN "fin" ELSE "rep_inicio"


\* Lines 626-655: one attempt of navegar_a_reportes under its policy, for
\* the call at line 1151 ("inicial"), 1164 ("handler1") or 1166 ("handler2").
NavIntento ==
    /\ pc = "nav"
    /\ \E e \in {SinError} \cup ErroresDeComando :
         LET exc == IF Abierta(navegador, navegador.actual)
                    THEN e ELSE "NoSuchWindowException" IN
         IF exc = SinError
         THEN /\ enReportes' = enReportes \cup {navegador.actual}
              /\ navegador' = [navegador EXCEPT !.enFrame = FALSE]
              /\ navIntento' = 1
              /\ ultimaDecision' = SinDecision
              /\ UNCHANGED <<navLlamada, error>>
              /\ IF navLlamada = "inicial"
                 THEN /\ idx' = 1
                      /\ intento' = 1
                      /\ pc' = "rep_inicio"
                 ELSE Siguiente
         ELSE LET t == Tenacity(NavPolicy, exc, navIntento) IN
              /\ UNCHANGED <<enReportes, navegador, idx, intento>>
              /\ ultimaDecision' = Decision("nav", NavPolicy, exc, navIntento)
              /\ IF t = "retry"
                 THEN /\ navIntento' = navIntento + 1
                      /\ pc' = "nav"
                      /\ UNCHANGED <<navLlamada, error>>
                 ELSE IF navLlamada = "handler1"
                 THEN \* caught by `except Exception` (line 1165)
                      /\ navLlamada' = "handler2"
                      /\ navIntento' = 1
                      /\ pc' = "nav"
                      /\ UNCHANGED error
                 ELSE /\ pc' = "fatal"
                      /\ error' = Propagada(NavPolicy, exc, navIntento)
                      /\ UNCHANGED <<navLlamada, navIntento>>
    /\ UNCHANGED <<dir, archivos_previos, wloop, archivo_descargado, estables,
                   popupPendiente, handle_original, handles_iniciales,
                   loginIntento, esperas, archivos_descargados, descargas,
                   recuperaciones, rechecks, recheckVacio, intentados, ultimaRec,
                   entorno, driver, quits, sys_exit, hay_datos, resumen_carga,
                   resultados,
                   pasos, handles_al_click, uvars>>


\* Variant of the finally clause that never closes the browser.
finally_quit_omitido(d, q) == q

\* Lines 1178-1181: the finally clause; quit is called when driver is set.
finally_quit(d, q) == IF d # "None" THEN q + 1 ELSE q

\* Lines 1172-1181: an exception reached the outer handler: the diagnostic
\* screenshot (it needs the current window, and its own failure replaces
\* the exception), then the finally clause, then the exception leaves
\* ejecutar_extraccion.
Fatal ==
    /\ pc = "fatal"
    /\ pc' = "abortado"
    /\ error' = IF driver # "None" /\ ~ Abierta(navegador, navegador.actual)
                THEN "NoSuchWindowException" ELSE error
    /\ quits' = finally_quit(driver, quits)
    /\ UNCHANGED <<dir, archivos_previos, wloop, archivo_descargado, estables,
                   navegador, enReportes, popupPendiente, idx, intento,
                   handle_original, handles_iniciales, loginIntento, esperas,
                   navIntento, navLlamada, archivos_descargados, descargas,
                   recuperaciones, rechecks, recheckVacio, intentados, ultimaRec,
                   entorno, driver, sys_exit, hay_datos, resumen_carga,
                   resultados, ultimaDecision,
                   pasos, handles_al_click, uvars>>


\* Lines 1169-1170 and 1178-1181: normal return through the finally clause.
Fin ==
    /\ pc = "fin"
    /\ pc' = "terminado"
    /\ quits' = finally_quit(driver, quits)
    /\ UNCHANGED <<dir, archivos_previos, wloop, archivo_descargado, estables,
                   navegador, enReportes, popupPendiente, idx, intento,
                   handle_original, handles_iniciales, loginIntento, esperas,
                   navIntento, navLlamada, archivos_descargados, descargas, error,
                   recuperaciones, rechecks, recheckVacio, intentados, ultimaRec,
                   entorno, driver, sys_exit, hay_datos, resumen_carga,
                   resultados, ultimaDecision,
                   pasos, handles_al_click, uvars>>

\* Lines 1666-1669 of main: ejecutar_extraccion returned its list.
RetornoExtraccion ==
    /\ pc = "terminado"
    /\ IF archivos_descargados = <<>>
       THEN /\ sys_exit' = <<1>>
            /\ pc' = "salida"
       ELSE /\ pc' = "transformacion"
            /\ UNCHANGED sys_exit
    /\ UNCHANGED <<dir, archivos_previos, wloop, archivo_descargado, estables,
                   navegador, enReportes, popupPendiente, idx, intento,
                   handle_original, handles_iniciales, loginIntento, esperas,
                   navIntento, navLlamada, archivos_descargados, descargas, error,
                   recuperaciones, rechecks, recheckVacio, intentados, ultimaRec,
                   entorno, driver, quits, hay_datos, resumen_carga,
                   resultados, ultimaDecision,
                   pasos, handles_al_click, uvars>>

\* Lines 1672-1682 of main: ejecutar_transformacion (every failure on a
\* file is caught inside it, lines 1330-1366) and the test of hay_datos.
Transformacion ==
    /\ pc = "transformacion"
    /\ \E hay \in BOOLEAN :
         IF hay THEN /\ hay_datos' = "si"
                     /\ pc' = "carga"
                     /\ UNCHANGED sys_exit
                ELSE /\ hay_datos' = "no"
                     /\ sys_exit' = <<1>>
                     /\ pc' = "salida"
    /\ UNCHANGED <<dir, archivos_previos, wloop, archivo_descargado, estables,
                   navegador, enReportes, popupPendiente, idx, intento,
                   handle_original, handles_iniciales, loginIntento, esperas,
                   navIntento, navLlamada, archivos_descargados, descargas, error,
                   recuperaciones, rechecks, recheckVacio, intentados, ultimaRec,
                   entorno, driver, quits, resumen_carga,
                   resultados, ultimaDecision,
                   pasos, handles_al_click, uvars>>

\* Variant that reports every failure as a configuration error.
CodigoDeSalida_siempreDos(exc) == 2

\* The clauses of main's try statement (lines 1699-1708) applied to the
\* exception exc: EnvironmentError is OSError, so the first clause takes
\* every OSError; SystemExit is not an Exception and passes both.
CodigoDeSalida(exc) ==
    IF "OSError" \in Superclases(exc) THEN 2 ELSE 1

\* Lines 1685-1697 of main: ejecutar_carga, which re-raises its failures
\* (lines 1623-1625); main returns after the summary and the process ends
\* with status 0.
Carga ==
    /\ pc = "carga"
    /\ \E exc \in {SinError, "Exception"} :
         /\ resumen_carga' = IF exc = SinError THEN "ok" ELSE "error"
         /\ error' = exc
         /\ sys_exit' = IF exc = SinError THEN <<0>> ELSE <<CodigoDeSalida(exc)>>
    /\ pc' = "salida"
    /\ UNCHANGED <<dir, archivos_previos, wloop, archivo_descargado, estables,
                   navegador, enReportes, popupPendiente, idx, intento,
                   handle_original, handles_iniciales, loginIntento, esperas,
                   navIntento, navLlamada, archivos_descargados, descargas,
                   recuperaciones, rechecks, recheckVacio, intentados, ultimaRec,
                   entorno, driver, quits, hay_datos,
                   resultados, ultimaDecision,
                   pasos, handles_al_click, uvars>>

\* Lines 1699-1708 of main: the exception that left ejecutar_extraccion.
MainExcept ==
    /\ pc = "abortado"
    /\ sys_exit' = <<CodigoDeSalida(error)>>
    /\ pc' = "salida"
    /\ UNCHANGED <<dir, archivos_previos, wloop, archivo_descargado, estables,
                   navegador, enReportes, popupPendiente, idx, intento,
                   handle_original, handles_iniciales, loginIntento, esperas,
                   navIntento, navLlamada, archivos_descargados, descargas, error,
                   recuperaciones, rechecks, recheckVacio, intentados, ultimaRec,
                   entorno, driver, quits, hay_datos, resumen_carga,
                   resultados, ultimaDecision,
                   pasos, handles_al_click, uvars>>

\* ------------------------------------------------------------------------
\* descargar_reporte: one attempt, step by step
\* ------------------------------------------------------------------------
PaginaLista(b) == Abierta(b, b.actual) /\ b.actual \in enReportes /\ ~ b.enFrame

\* Lines 1063-1071: entry of an attempt; driver.current_window_handle is
\* read outside the try block.
IntentoInicio ==
    /\ pc = "rep_inicio"
    /\ intentados' = intentados \cup {idx}
    /\ ultimaDecision' = SinDecision
    /\ pasos' = <<>>
    /\ recuperaciones' = 0
    /\ rechecks' = 0
    /\ recheckVacio' = FALSE
    /\ IF Abierta(navegador, navegador.actual)
       THEN /\ handle_original' = navegador.actual
            /\ error' = SinError
            /\ pc' = "seleccionar"
       ELSE /\ error' = "NoSuchWindowException"
            /\ pc' = "tenacity"
            /\ UNCHANGED handle_original
    /\ UNCHANGED <<dir, archivos_previos, wloop, archivo_descargado, estables,
                   navegador, enReportes, popupPendiente, idx, intento,
                   handles_iniciales, loginIntento, esperas, navIntento,
                   navLlamada, archivos_descargados, descargas, ultimaRec,
                   entorno, driver, quits, sys_exit, hay_datos, resumen_carga,
                   resultados,
                   handles_al_click, uvars>>

\* Variant that goes on to the next step whatever the step returned.
TrasPaso_sinComprobar(ok, siguiente) == siguiente

\* `if not <step>: raise Exception(...)` (lines 1075-1076, 1079-1080,
\* 1086-1087): where the attempt goes after a step returned ok.
TrasPaso(ok, siguiente) == IF ok THEN siguiente ELSE "manejador"

\* The record of a step that has run.
Paso(nombre, ok) == [paso |-> nombre, ok |-> ok]

\* Lines 1075-1076 (seleccionar_fila_reporte never raises, lines 680-725).
Seleccionar ==
    /\ pc = "seleccionar"
    /\ \E ok \in BOOLEAN :
         /\ ok => PaginaLista(navegador)
         /\ pasos' = Append(pasos, Paso("seleccionar", ok))
         /\ pc' = TrasPaso(ok, "click")
         /\ error' = IF ok THEN error ELSE "Exception"
    /\ UNCHANGED <<dir, archivos_previos, wloop, archivo_descargado, estables,
                   navegador, enReportes, popupPendiente, idx, intento,
                   handle_original, handles_iniciales, loginIntento, esperas,
                   navIntento, navLlamada, archivos_descargados, descargas,
                   recuperaciones, rechecks, recheckVacio, intentados, ultimaRec, mvars,
                   handles_al_click, uvars>>

\* Lines 1079-1080 (click_boton_ejecutar_inferior never raises, 741-764).
\* A click that went through makes the console open its parameter modal,
\* as a popup window or as an inline frame.
ClickEjecutar ==
    /\ pc = "click"
    /\ \E ok \in BOOLEAN, popup \in BOOLEAN :
         /\ ok => PaginaLista(navegador)
         /\ ~ ok => ~ popup
         /\ popupPendiente' = popup
         /\ pasos' = Append(pasos, Paso("click", ok))
         /\ handles_al_click' =
                {navegador.handles[i] : i \in 1..Len(navegador.handles)}
         /\ pc' = TrasPaso(ok, "snapshot")
         /\ error' = IF ok THEN error ELSE "Exception"
    /\ UNCHANGED <<dir, archivos_previos, wloop, archivo_descargado, estables,
                   navegador, enReportes, idx, intento,
                   handle_original, handles_iniciales, loginIntento, esperas,
                   navIntento, navLlamada, archivos_descargados, descargas,
                   recuperaciones, rechecks, recheckVacio, intentados, ultimaRec, mvars,
                   uvars>>

\* Line 1083: the baseline snapshot.
Snapshot ==
    /\ pc = "snapshot"
    /\ archivos_previos' = obtener_archivos_en_directorio(dir)
    /\ pasos' = Append(pasos, Paso("snapshot", TRUE))
    /\ pc' = "modal"
    /\ UNCHANGED <<dir, wloop, archivo_descargado, estables,
                   navegador, enReportes, popupPendiente, idx, intento,
                   handle_original, handles_iniciales, loginIntento, esperas,
                   navIntento, navLlamada, archivos_descargados, descargas, error,
                   recuperaciones, rechecks, recheckVacio, intentados, ultimaRec, mvars,
                   handles_al_click, uvars>>

\* Lines 788-792 of manejar_modal_parametros: the 'before' handles, then the
\* 6 s sleep.
ModalInicio ==
    /\ pc = "modal"
    /\ IF Abierta(navegador, navegador.actual)
       THEN /\ handles_iniciales' = {navegador.handles[i] : i \in 1..Len(navegador.handles)}
            /\ pc' = "modal_espera"
            /\ UNCHANGED <<error, pasos>>
       ELSE /\ error' = "NoSuchWindowException"
            /\ pc' = "manejador"
            /\ pasos' = Append(pasos, Paso("modal", FALSE))
            /\ UNCHANGED handles_iniciales
    /\ UNCHANGED <<dir, archivos_previos, wloop, archivo_descargado, estables,
                   navegador, enReportes, popupPendiente, idx, intento,
                   handle_original, loginIntento, esperas,
                   navIntento, navLlamada, archivos_descargados, descargas,
                   recuperaciones, rechecks, recheckVacio, intentados, ultimaRec, mvars,
                   handles_al_click, uvars>>

\* Lines 795-982 of manejar_modal_parametros: context detection, parameters,
\* dates, and the click on the modal's submit control; then line 1091 enters
\* the watcher.
ModalResto ==
    /\ pc = "modal_espera"
    /\ popupPendiente' = FALSE
    /\ LET nuevas_ventanas ==
             {navegador.handles[i] : i \in 1..Len(navegador.handles)} \ handles_iniciales
       IN \E nueva \in (IF nuevas_ventanas = {} THEN {navegador.actual} ELSE nuevas_ventanas),
             iframe \in BOOLEAN, boton_clickeado \in BOOLEAN :
            LET b == IF nuevas_ventanas # {}
                     THEN [navegador EXCEPT !.actual = nueva, !.enFrame = FALSE]
                     ELSE IF Abierta(navegador, navegador.actual) /\ iframe
                     THEN [navegador EXCEPT !.enFrame = TRUE]
                     ELSE navegador
            IN /\ (nuevas_ventanas # {} => ~ iframe)
               /\ (boton_clickeado => Abierta(b, b.actual))
               /\ navegador' = b
               /\ pasos' = Append(pasos, Paso("modal", boton_clickeado))
               /\ pc' = TrasPaso(boton_clickeado, "esperando")
               /\ error' = IF boton_clickeado THEN error ELSE "Exception"
               /\ descargas' = IF boton_clickeado
                                THEN Append(descargas,
                                            [reporte |-> idx, estado |-> "pendiente"])
                                ELSE descargas
               /\ IF TrasPaso(boton_clickeado, "esperando") = "esperando"
                  THEN IniciarEspera
                  ELSE UNCHANGED <<wloop, archivo_descargado>>
    /\ Len(descargas) < Len(Stems)
    /\ UNCHANGED <<dir, archivos_previos, estables, enReportes, idx,
                   intento, handle_original, handles_iniciales, loginIntento,
                   esperas, navIntento, navLlamada, archivos_descargados,
                   recuperaciones, rechecks, recheckVacio, intentados, ultimaRec, mvars,
                   handles_al_click, uvars>>

\* Line 1091 returned: the watcher found a file.
DescargaDetectada ==
    /\ pc = "esperando"
    /\ wpc = "returned"
    /\ pc' = "exito"
    /\ pasos' = Append(pasos, Paso("espera", TRUE))
    /\ wIdle
    /\ UNCHANGED <<dir, archivos_previos, archivo_descargado, estables,
                   navegador, enReportes, popupPendiente, idx, intento,
                   handle_original, handles_iniciales, loginIntento, esperas,
                   navIntento, navLlamada, archivos_descargados, descargas, error,
                   recuperaciones, rechecks, recheckVacio, intentados, ultimaRec, mvars,
                   handles_al_click, uvars>>

\* Variant of the difference that ignores the baseline snapshot.
nuevos_sinBase(d, previos) == obtener_archivos_en_directorio(d)

\* The difference the late recheck picks its file from (line 1095).
nuevos(d, previos) == obtener_archivos_en_directorio(d) \ previos

\* Lines 1092-1099: TimeoutError caught, one more snapshot.
Recheck ==
    /\ pc = "esperando"
    /\ wpc = "timeout"
    /\ rechecks' = rechecks + 1
    /\ pasos' = Append(pasos, Paso("espera", nuevos(dir, archivos_previos) # {}))
    /\ wIdle
    /\ IF nuevos(dir, archivos_previos) # {}
       THEN /\ \E f \in nuevos(dir, archivos_previos) : archivo_descargado' = f
            /\ pc' = "exito"
            /\ UNCHANGED <<error, recheckVacio>>
       ELSE /\ recheckVacio' = TRUE
            /\ error' = "TimeoutError"
            /\ pc' = "manejador"
            /\ UNCHANGED archivo_descargado
    /\ UNCHANGED <<dir, archivos_previos, estables,
                   navegador, enReportes, popupPendiente, idx, intento,
                   handle_original, handles_iniciales, loginIntento, esperas,
                   navIntento, navLlamada, archivos_descargados, descargas,
                   recuperaciones, intentados, ultimaRec, mvars,
                   handles_al_click, uvars>>

Rec(b, f1, f2, r) ==
    [llamada |-> TRUE, variasVentanas |-> Len(b.handles) > 1,
     actualAbierta |-> Abierta(b, b.actual), fallaPropia |-> (f1 + f2 > 0),
     fallback |-> r.fallback, interno |-> r.interno, exc |-> r.exc]

\* Lines 1101-1107: recovery on the success path, then the return.
Exito ==
    /\ pc = "exito"
    /\ LET r == cerrar_modal_y_volver(navegador, handle_original, 0, 0) IN
         /\ navegador' = r.b
         /\ ultimaRec' = Rec(navegador, 0, 0, r)
         /\ recuperaciones' = recuperaciones + 1
         /\ IF r.exc = SinError
            THEN pc' = "retornado" /\ UNCHANGED error
            ELSE pc' = "manejador" /\ error' = r.exc
    /\ UNCHANGED <<dir, archivos_previos, wloop, archivo_descargado, estables,
                   enReportes, popupPendiente, idx, intento,
                   handle_original, handles_iniciales, loginIntento, esperas,
                   navIntento, navLlamada, archivos_descargados, descargas,
                   rechecks, recheckVacio, intentados, mvars,
                   pasos, handles_al_click, uvars>>

\* The locals and the pending exception of an attempt end with it.
FinDeIntento ==
    /\ archivos_previos' = {}
    /\ archivo_descargado' = Ninguno
    /\ handle_original' = VentanaOriginal
    /\ handles_iniciales' = {}
    /\ error' = SinError
    /\ recuperaciones' = 0
    /\ rechecks' = 0
    /\ recheckVacio' = FALSE
    /\ ultimaRec' = SinRec
    /\ pasos' = <<>>
    /\ handles_al_click' = {}


\* Variant of list.append that puts the new path first.
append_alFrente(lista, x) == <<x>> \o lista

\* list.append (line 1157).
append(lista, x) == Append(lista, x)

\* Lines 1156-1158: the returned path is appended to archivos_descargados.
Registrar ==
    /\ pc = "retornado"
    /\ archivos_descargados' = append(archivos_descargados, archivo_descargado)
    /\ resultados' = Append(resultados,
                            [estado |-> "Success", archivo |-> archivo_descargado])
    /\ Siguiente
    /\ FinDeIntento
    /\ UNCHANGED <<dir, wloop, estables, navegador, enReportes, popupPendiente,
                   loginIntento, esperas, navIntento, navLlamada,
                   descargas, intentados,
                   entorno, driver, quits, sys_exit, hay_datos, resumen_carga,
                   ultimaDecision,
                   uvars>>

\* Lines 1109-1115: the failure handler: screenshot, recovery, re-raise.
Manejador ==
    /\ pc = "manejador"
    /\ pc' = "tenacity"
    /\ IF ~ Abierta(navegador, navegador.actual)
       THEN \* driver.save_screenshot raises: line 1114 is not reached
            /\ error' = "NoSuchWindowException"
            /\ UNCHANGED <<navegador, recuperaciones, ultimaRec>>
       ELSE LET r == cerrar_modal_y_volver(navegador, handle_original, 0, 0) IN
              /\ navegador' = r.b
              /\ ultimaRec' = Rec(navegador, 0, 0, r)
              /\ recuperaciones' = recuperaciones + 1
              /\ error' = IF r.exc = SinError THEN error ELSE r.exc
    /\ UNCHANGED <<dir, archivos_previos, wloop, archivo_descargado, estables,
                   enReportes, popupPendiente, idx, intento,
                   handle_original, handles_iniciales, loginIntento, esperas,
                   navIntento, navLlamada, archivos_descargados, descargas,
                   rechecks, recheckVacio, intentados, mvars,
                   pasos, handles_al_click, uvars>>


\* Lines 1030-1037: the policy of descargar_reporte decides on the error
\* that left the attempt.
TenacityReporte ==
    /\ pc = "tenacity"
    /\ ultimaDecision' = Decision("reporte", ReportePolicy, error, intento)
    /\ LET t == Tenacity(ReportePolicy, error, intento) IN
         IF t = "retry"
         THEN /\ intento' = intento + 1
              /\ pc' = "rep_inicio"
              /\ UNCHANGED resultados
         ELSE /\ pc' = "except_reporte"
              /\ resultados' = Append(resultados,
                                      [estado |-> "Failed", archivo |-> Ninguno])
              /\ UNCHANGED intento
    /\ FinDeIntento
    /\ UNCHANGED <<dir, wloop, estables, navegador, enReportes, popupPendiente,
                   idx, loginIntento, esperas, navIntento,
                   navLlamada, archivos_descargados, descargas, intentados,
                   entorno, driver, quits, sys_exit, hay_datos, resumen_carga,
                   uvars>>

\* Lines 1159-1167: the driver's handler for a failed report.
ExceptReporte ==
    /\ pc = "except_reporte"
    /\ ultimaDecision' = SinDecision
    /\ IF ~ Abierta(navegador, navegador.actual)
       THEN \* driver.current_url raises: line 1166
            /\ navLlamada' = "handler2"
            /\ navIntento' = 1
            /\ pc' = "nav"
            /\ UNCHANGED <<idx, intento>>
       ELSE IF navegador.actual \notin enReportes
       THEN \* line 1164
            /\ navLlamada' = "handler1"
            /\ navIntento' = 1
            /\ pc' = "nav"
            /\ UNCHANGED <<idx, intento>>
       ELSE /\ Siguiente
            /\ UNCHANGED <<navLlamada, navIntento>>
    /\ UNCHANGED <<dir, archivos_previos, wloop, archivo_descargado, estables,
                   navegador, enReportes, popupPendiente,
                   handle_original, handles_iniciales, loginIntento, esperas,
                   archivos_descargados, descargas, error,
                   recuperaciones, rechecks, recheckVacio, intentados, ultimaRec,
                   entorno, driver, quits, sys_exit, hay_datos, resumen_carga,
                   resultados,
                   pasos, handles_al_click, uvars>>

\* ------------------------------------------------------------------------
\* The run
\* ------------------------------------------------------------------------
Init ==
    /\ dir = [f \in {} |-> 0]      \* limpiar_directorio_descargas (line 1136)
    /\ archivos_previos = {}
    /\ wpc = "idle"
    /\ tiempo = 0
    /\ intervalo = DOWNLOAD_CHECK_INTERVAL_MIN * Escala
    /\ nchecks = 0
    /\ archivo_descargado = Ninguno
    /\ estables = {}
    /\ pc = "import"
    /\ navegador = NavegadorInicial
    /\ enReportes = {}
    /\ popupPendiente = FALSE
    /\ idx = 0
    /\ intento = 1
    /\ handle_original = VentanaOriginal
    /\ handles_iniciales = {}
    /\ loginIntento = 1
    /\ esperas = <<>>
    /\ navIntento = 1
    /\ navLlamada = "inicial"
    /\ archivos_descargados = <<>>
    /\ descargas = <<>>
    /\ error = SinError
    /\ recuperaciones = 0
    /\ rechecks = 0
    /\ recheckVacio = FALSE
    /\ intentados = {}
    /\ ultimaRec = SinRec
    /\ entorno \in [Secretos -> {"ausente", "vacia", "valor"}]
    /\ driver = "None"
    /\ quits = 0
    /\ sys_exit = <<>>
    /\ hay_datos = "sin_evaluar"
    /\ resumen_carga = "sin_invocar"
    /\ resultados = <<>>
    /\ ultimaDecision = SinDecision
    /\ pasos = <<>>
    /\ handles_al_click = {}
    /\ hoy = HoyDeLaCorrida
    /\ fecha_ayer = Ninguno
    /\ UnidadesEnReposo

Next ==
    \/ Importar \/ LimpiarDirectorio
    \/ IniciarNavegador \/ LoginIntento \/ NavIntento \/ Fatal \/ Fin
    \/ RetornoExtraccion \/ Transformacion \/ Carga \/ MainExcept
    \/ IntentoInicio \/ Seleccionar \/ ClickEjecutar \/ Snapshot
    \/ ModalInicio \/ ModalResto
    \/ WatchCheck \/ WatchSleep \/ WatchTimeout
    \/ DescargaDetectada \/ Recheck \/ Exito \/ Registrar
    \/ Manejador \/ TenacityReporte \/ ExceptReporte
    \/ DescargaAvanza \/ PopupAbre \/ PopupCierra \/ PaginaSale

Spec == Init /\ [][Next]_vars

\* ------------------------------------------------------------------------
\* Context recovery on its own, over every state of the session
\* ------------------------------------------------------------------------
Ventanas == 0..(MaxVentanas - 1)

\* Window lists: one to MaxVentanas distinct handles, in any order.
ListasDeVentanas ==
    {hs \in UNION {[1..n -> Ventanas] : n \in 1..MaxVentanas} :
        \A i, j \in 1..Len(hs) : i # j => hs[i] # hs[j]}

InitRec ==
    /\ pc = "rec"
    /\ navegador \in [handles : ListasDeVentanas, actual : Ventanas, enFrame : BOOLEAN]
    /\ handle_original \in Ventanas
    /\ RestoEnReposo
    /\ UnidadesEnReposo
    /\ hoy = HoyDeLaCorrida
    /\ fecha_ayer = calcular_fecha_ayer(hoy)
    /\ dir = [f \in {} |-> 0]
    /\ archivos_previos = {}
    /\ wpc = "idle"
    /\ tiempo = 0
    /\ intervalo = DOWNLOAD_CHECK_INTERVAL_MIN * Escala
    /\ nchecks = 0
    /\ archivo_descargado = Ninguno
    /\ estables = {}

\* A call of cerrar_modal_y_volver in which any one command of the try
\* block and any one command of the fallback may fail on its own.
Recuperar ==
    /\ pc = "rec"
    /\ \E f1 \in Fallas1(navegador, handle_original), f2 \in Fallas2 :
         LET r == cerrar_modal_y_volver(navegador, handle_original, f1, f2) IN
         /\ navegador' = r.b
         /\ ultimaRec' = Rec(navegador, f1, f2, r)
         /\ error' = r.exc
    /\ recuperaciones' = recuperaciones + 1
    /\ pc' = "rec_hecho"
    /\ UNCHANGED <<dir, archivos_previos, wloop, archivo_descargado, estables,
                   enReportes, popupPendiente, idx, intento, handle_original,
                   handles_iniciales, loginIntento, esperas, navIntento,
                   navLlamada, archivos_descargados, descargas, rechecks,
                   recheckVacio, intentados, mvars,
                   pasos, handles_al_click, uvars>>

SpecRec == InitRec /\ [][Recuperar]_vars

\* ------------------------------------------------------------------------
\* Properties of the run
\* ------------------------------------------------------------------------

\* C1: once the report loop has started, no failure of a report ends the
\* run: the run is never aborted from inside the loop, and when it returns
\* every configured report has been attempted.
C1_ReportFailureNeverEndsRun ==
    /\ pc \in {"fatal", "abortado"} => idx = 0
    /\ pc = "terminado" => intentados = 1..Len(REPORTES)

\* C2: whenever an attempt of descargar_reporte starts, the session is at
\* the root document of the baseline window and no other window is open.
C2_AttemptStartsAtBaselineRoot ==
    pc = "rep_inicio" => navegador = NavegadorInicial

\* C3: when the result of an attempt of descargar_reporte leaves the
\* function (a returned path or a raised error), cerrar_modal_y_volver has
\* been called exactly once in that attempt.
C3_ExactlyOneRecoveryPerAttempt ==
    pc \in {"retornado", "tenacity"} => recuperaciones = 1

\* C4: cerrar_modal_y_volver never raises: whatever the windows, the
\* current window and the failing commands, no exception leaves the call.
C4_RecoveryNeverRaises ==
    ultimaRec.llamada => ultimaRec.exc = SinError

\* C4 witness: the call met several windows and a current window already
\* closed, a command failed on its own, the fallback ran and failed too,
\* and the call still returned normally.
C4_Witness ==
    /\ pc = "rec_hecho"
    /\ ultimaRec.llamada
    /\ ultimaRec.variasVentanas
    /\ ~ ultimaRec.actualAbierta
    /\ ultimaRec.fallaPropia
    /\ ultimaRec.fallback
    /\ ultimaRec.interno # SinError
    /\ ultimaRec.exc = SinError

\* C6: no path returned by descargar_reporte, and so no entry of
\* archivos_descargados, names a file with a partial-download suffix.
C6_NoPartialPathReturned ==
    /\ pc = "retornado" => NoEsTemporal(archivo_descargado)
    /\ \A i \in 1..Len(archivos_descargados) : NoEsTemporal(archivos_descargados[i])

\* C8: after the watcher's timeout the attempt takes exactly one more
\* snapshot; if it shows a new file the attempt succeeds with a file that
\* is new relative to the baseline, otherwise the error that leaves the
\* attempt is that TimeoutError, which the per-report policy retries.
C8_LateRecheckThenSameTimeout ==
    /\ rechecks <= 1
    /\ (pc \in {"exito", "retornado"} /\ rechecks = 1) =>
           (~ recheckVacio /\ archivo_descargado \notin archivos_previos)
    /\ (pc = "tenacity" /\ recheckVacio) =>
           (rechecks = 1 /\ error = "TimeoutError"
            /\ "TimeoutError" \in ReportePolicy.retry)

C5_ReturnsOnlyCompleteNewNonEmpty ==
    [][(wpc = "check" /\ wpc' = "returned") =>
         /\ ~ endswith(archivo_descargado', ".crdownload")
         /\ ~ endswith(archivo_descargado', ".part")
         /\ ~ endswith(archivo_descargado', ".tmp")
         /\ archivo_descargado' \notin archivos_previos
         /\ archivo_descargado' \in DOMAIN dir
         /\ dir[archivo_descargado'] > 0]_vars

\* C5 witness: the watcher returned report23.csv after at least one sleep,
\* with a.txt in the baseline and partial names still in the directory.
C5_Witness ==
    /\ wpc = "returned"
    /\ archivo_descargado = reportCsv
    /\ archivos_previos = {aTxt}
    /\ {reportCrdownload, reportPart, otroTmp} \subseteq DOMAIN dir
    /\ tiempo > 0

\* C7 (as stated): whenever, after a partial name, one new non-suffixed
\* file of non-zero size shows up before the timeout and stays, the watcher
\* returns it; so the watcher never raises its timeout while such a file
\* is there.
C7_Original_ReturnsWheneverFileBeforeTimeout ==
    wpc = "timeout" => estables = {}

\* C7 (amended): every directory check made while such a file is present
\* returns that file's name; a file that shows up only after the last
\* check is not covered.
C7_CheckReturnsStableFile ==
    [][(nchecks' # nchecks /\ estables # {}) =>
         (wpc' = "returned" /\ archivo_descargado' \in estables)]_vars

\* C7 witness: baseline {a.txt}, the partial name is still present, and a
\* check after the first one returned report23.csv.
C7_Witness ==
    /\ wpc = "returned"
    /\ archivos_previos = {aTxt}
    /\ archivo_descargado = reportCsv
    /\ archivo_descargado \in estables
    /\ reportCrdownload \in DOMAIN dir
    /\ nchecks > 1

\* C9: the watcher terminates (returns or raises TimeoutError); it makes no
\* directory check once the elapsed time has reached the timeout; and if
\* no new non-partial file of non-zero size ever appears it ends in
\* TimeoutError.
C9_TerminatesAndNoCheckAfterTimeout ==
    /\ <>(wpc \in {"returned", "timeout"})
    /\ [][nchecks' # nchecks => tiempo < DOWNLOAD_TIMEOUT * Escala]_vars
    /\ ([](Calificados(dir, archivos_previos) = {}) => <>(wpc = "timeout"))

\* C9 witness: TimeoutError was raised after all seven directory checks
\* (at 0, 1, 2.5, 4.75, 8.125, 13.1875 and 19.1875 s).
C9_Witness ==
    /\ wpc = "timeout"
    /\ nchecks = 7
    /\ tiempo >= DOWNLOAD_TIMEOUT * Escala

\* ------------------------------------------------------------------------
\* Properties of the retry wrappers, the report loop and main
\* ------------------------------------------------------------------------

\* C11: whatever fails, the body of login_neotel runs at most 3 times in a
\* run, the body of navegar_a_reportes at most 3 times in one invocation,
\* and the body of descargar_reporte at most 2 times for a configured
\* report: the attempt counters never pass 3, 3 and 2, and the first
\* attempt of a report starts only for a report not attempted before.
C11_AttemptsBounded ==
    /\ loginIntento <= 3
    /\ navIntento <= 3
    /\ intento <= 2
    /\ (pc = "rep_inicio" /\ intento = 1) => idx \notin intentados
    /\ (pc = "login" /\ loginIntento = 1) => ultimaDecision.op = "ninguna"

\* C11 witness: the second attempt of a report failed with a retryable
\* error and the wrapper gave up.
C11_Witness ==
    /\ pc = "except_reporte"
    /\ intento = 2
    /\ ultimaDecision.op = "reporte"
    /\ ultimaDecision.intento = 2
    /\ ultimaDecision.exc = "TimeoutError"

\* The policy, the attempt counter and the position of the attempts of a
\* retry-wrapped operation.
PoliticaDe(op) ==
    CASE op = "login" -> LoginPolicy
      [] op = "nav" -> NavPolicy
      [] OTHER -> ReportePolicy
ContadorDe(op) ==
    CASE op = "login" -> loginIntento
      [] op = "nav" -> navIntento
      [] OTHER -> intento
PcDe(op) ==
    CASE op = "login" -> "login"
      [] op = "nav" -> "nav"
      [] OTHER -> "rep_inicio"

\* C12: after an attempt of login, navigation or a report download failed
\* with an error outside the policy's retryable set, or failed on the last
\* allowed attempt, no backoff is slept and the call makes no further
\* attempt; a backoff is slept only after a retryable failure that is
\* followed by the next attempt of the same call.
C12_NoSleepUnlessRetried ==
    LET u == ultimaDecision
        noReintentable == Superclases(u.exc) \cap PoliticaDe(u.op).retry = {}
        ultimo == u.intento >= PoliticaDe(u.op).stop
        sigue == pc = PcDe(u.op) /\ ContadorDe(u.op) = u.intento + 1
    IN u.op # "ninguna" =>
         /\ (noReintentable \/ ultimo) => (u.espera = 0 /\ ~ sigue)
         /\ u.espera > 0 => (~ noReintentable /\ ~ ultimo /\ sigue)

\* C12 witness: the first attempt of a report failed with a plain Exception
\* and the failure reached the driver's handler with no sleep and no retry.
C12_Witness ==
    /\ pc = "except_reporte"
    /\ ultimaDecision = [op |-> "reporte", exc |-> "Exception", intento |-> 1,
                         espera |-> 0]
    /\ intento = 1

\* The positions of the steps of an attempt of descargar_reporte.
PasosDeReporte ==
    {"seleccionar", "click", "snapshot", "modal", "modal_espera", "esperando",
     "exito", "manejador"}

\* C13: reports are processed in configured order: while a step of report
\* number idx runs, every earlier report is resolved (it returned a file, or
\* its attempts and their handlers are over), in order, and no later report
\* has been started.
C13_ReportsInConfiguredOrder ==
    pc \in PasosDeReporte =>
        /\ idx \in 1..Len(REPORTES)
        /\ Len(resultados) = idx - 1
        /\ intentados = 1..idx

\* C13 witness: the second report is being selected after the first one was
\* resolved.
C13_Witness ==
    /\ pc = "seleccionar"
    /\ idx = 2
    /\ Len(resultados) = 1

\* C14 (as stated): the value ejecutar_extraccion returns holds one entry
\* per configured report, Failed or Success, in configuration order.
C14_Original_OneOutcomePerReport ==
    pc = "terminado" => Len(archivos_descargados) = Len(REPORTES)

\* The files of the reports that succeeded, in the order of resolution.
RECURSIVE Exitosos(_)
Exitosos(res) ==
    IF res = <<>> THEN <<>>
    ELSE (IF Head(res).estado = "Success" THEN <<Head(res).archivo>> ELSE <<>>)
         \o Exitosos(Tail(res))

\* C14 (amended): when ejecutar_extraccion returns, every configured report
\* has been resolved and the returned list holds, in configuration order,
\* the file of each report that succeeded and nothing for a failed one.
C14_ReturnsFilesOfSuccessesInOrder ==
    pc = "terminado" =>
        /\ Len(resultados) = Len(REPORTES)
        /\ archivos_descargados = Exitosos(resultados)

\* C14 witness: the first report failed, the second succeeded, and the
\* returned list has the second report's file only.
C14_Witness ==
    /\ pc = "terminado"
    /\ Len(resultados) = 2
    /\ resultados[1].estado = "Failed"
    /\ resultados[2].estado = "Success"
    /\ archivos_descargados = <<resultados[2].archivo>>

\* Downloads requested from the console and not yet complete.
EnCurso == {d \in 1..Len(descargas) : descargas[d].estado # "completa"}

\* C15: at most one requested download is outstanding at any moment, and
\* none is when an attempt (a retry or the next report) starts.
C15_AtMostOneDownloadInFlight ==
    /\ Cardinality(EnCurso) <= 1
    /\ pc = "rep_inicio" => EnCurso = {}

\* The positions at which ejecutar_extraccion has been left.
FueraDeExtraccion ==
    {"terminado", "abortado", "transformacion", "carga", "salida"}

\* C16: once the browser session exists, driver.quit() is called exactly
\* once on the way out of ejecutar_extraccion, on every exit path, and
\* ejecutar_extraccion issues nothing after it.
C16_QuitExactlyOnce ==
    /\ quits <= 1
    /\ (driver # "None" /\ pc \in FueraDeExtraccion) => quits = 1
    /\ quits = 1 => pc \in FueraDeExtraccion
    /\ driver = "None" => quits = 0

\* C16 witness: the run was aborted from the report loop, the diagnostic
\* screenshot of the outer handler failed on a closed window, and quit was
\* still called once.
C16_Witness ==
    /\ pc = "abortado"
    /\ driver = "sesion"
    /\ idx >= 1
    /\ error = "NoSuchWindowException"
    /\ quits = 1

\* C17: if a required secret is absent or empty the process ends with exit
\* code 2 and no browser was started.
C17_MissingSecretExitsTwo ==
    (sys_exit # <<>> /\ \E n \in Secretos : entorno[n] # "valor") =>
        (sys_exit = <<2>> /\ driver = "None")

\* C18: when every configured report failed, ejecutar_extraccion returns
\* an empty list and main exits with code 1 without invoking
\* ejecutar_transformacion or ejecutar_carga.
C18_AllFailedReturnsEmptyExitsOne ==
    (/\ pc = "salida"
     /\ Len(resultados) = Len(REPORTES)
     /\ \A i \in 1..Len(resultados) : resultados[i].estado = "Failed") =>
        /\ error = SinError
        /\ archivos_descargados = <<>>
        /\ sys_exit = <<1>>
        /\ hay_datos = "sin_evaluar"
        /\ resumen_carga = "sin_invocar"

\* The three conditions of a successful run.
TresCondiciones ==
    /\ archivos_descargados # <<>>
    /\ hay_datos = "si"
    /\ resumen_carga = "ok"

\* C19: exit code 0 only with at least one extracted file, a non-empty
\* transformed dataset and a load that did not raise; the load is never
\* invoked without a non-empty dataset; every run that got past
\* configuration and misses one of the three ends with exit code 1.
C19_ExitCodes ==
    /\ sys_exit = <<0>> => TresCondiciones
    /\ resumen_carga # "sin_invocar" => hay_datos = "si"
    /\ (/\ sys_exit # <<>>
        /\ \A n \in Secretos : entorno[n] = "valor"
        /\ ~ TresCondiciones) => sys_exit = <<1>>

\* C20: when the driver starts the next report, after a report that
\* succeeded or one that failed, the page shown is the report list:
\* navegar_a_reportes was invoked whenever it was not.
C20_NavigatesBackBeforeNextReport ==
    (/\ pc = "rep_inicio"
     /\ intento = 1
     /\ idx > 1
     /\ Abierta(navegador, navegador.actual)) =>
        navegador.actual \in enReportes

\* ------------------------------------------------------------------------
\* Properties of the steps of an attempt and of context recovery
\* ------------------------------------------------------------------------
OrdenDePasos == <<"seleccionar", "click", "snapshot", "modal", "espera">>

\* C21: in every attempt of descargar_reporte the steps run in the order
\* select row, click execute, baseline snapshot, modal handling, download
\* wait; a step runs only if every earlier step of the attempt succeeded;
\* the baseline snapshot precedes the modal handling that clicks submit.
C21_StepsInOrder ==
    /\ Len(pasos) <= Len(OrdenDePasos)
    /\ \A i \in 1..Len(pasos) :
          /\ pasos[i].paso = OrdenDePasos[i]
          /\ i < Len(pasos) => pasos[i].ok
    /\ \A i \in 1..Len(pasos) :
          pasos[i].paso = "modal" => \E j \in 1..(i - 1) : pasos[j].paso = "snapshot"

\* C21 witness: an attempt ran all five steps and the download was detected.
C21_Witness ==
    /\ pc = "exito"
    /\ Len(pasos) = 5
    /\ \A i \in 1..5 : pasos[i].ok

\* C24: a call of cerrar_modal_y_volver that met more than one window
\* leaves the baseline as the only and the current window; a call that met
\* one window handle leaves the session at the root document of the
\* baseline window.
C24_RecoveryEndsAtBaseline ==
    ultimaRec.llamada =>
        /\ navegador.actual = handle_original
        /\ Abierta(navegador, navegador.actual)
        /\ ~ navegador.enFrame
        /\ ultimaRec.variasVentanas => navegador.handles = <<handle_original>>

\* C25: a call of cerrar_modal_y_volver in which a step raised ends with
\* the session at the root document of the first known window handle.
C25_FallbackResetsToFirstWindow ==
    (ultimaRec.llamada /\ ultimaRec.fallback) =>
        /\ Len(navegador.handles) > 0
        /\ navegador.actual = navegador.handles[1]
        /\ ~ navegador.enFrame

\* C26: the handles manejar_modal_parametros diffs against are the ones
\* that were open when the execute trigger was clicked, so a popup the
\* click opened is a new handle of the diff and is the window switched to.
C26_BeforeSetIsFromBeforeTheClick ==
    /\ pc = "modal_espera" => handles_iniciales = handles_al_click
    /\ pc = "esperando" =>
          LET abiertas == {navegador.handles[i] : i \in 1..Len(navegador.handles)}
          IN (abiertas \ handles_al_click # {}) =>
                navegador.actual \in (abiertas \ handles_al_click)

\* ------------------------------------------------------------------------
\* Functions exercised on their own, the pipeline at rest
\* ------------------------------------------------------------------------

\* Every variable but pc and the ones of the functions exercised.
nucleo == <<dir, archivos_previos, wloop, archivo_descargado, estables,
             navegador, enReportes, popupPendiente, idx, intento,
             handle_original, handles_iniciales, loginIntento, esperas,
             navIntento, navLlamada, archivos_descargados, descargas, error,
             recuperaciones, rechecks, recheckVacio, intentados, ultimaRec,
             mvars, pasos, handles_al_click>>

tuberia == <<nucleo, avars>>

TuberiaEnReposo ==
    /\ navegador = NavegadorInicial
    /\ handle_original = VentanaOriginal
    /\ RestoEnReposo
    /\ dir = [f \in {} |-> 0]
    /\ archivos_previos = {}
    /\ wpc = "idle"
    /\ tiempo = 0
    /\ intervalo = DOWNLOAD_CHECK_INTERVAL_MIN * Escala
    /\ nchecks = 0
    /\ archivo_descargado = Ninguno
    /\ estables = {}

\* ------------------------------------------------- calcular_fecha_ayer
\* The calendar, stated without ordinals.
DiasDelMes(a, m) ==
    IF m = 2
    THEN (IF a % 400 = 0 \/ (a % 4 = 0 /\ a % 100 # 0) THEN 29 ELSE 28)
    ELSE IF m \in {4, 6, 9, 11} THEN 30 ELSE 31

DiaSiguiente(f) ==
    IF f.d < DiasDelMes(f.a, f.m) THEN [f EXCEPT !.d = f.d + 1]
    ELSE IF f.m < 12 THEN [a |-> f.a, m |-> f.m + 1, d |-> 1]
    ELSE [a |-> f.a + 1, m |-> 1, d |-> 1]

\* The years datetime.now() is drawn from: a leap century year, a common
\* century year and the years around the leap year 2024.
AniosDeFecha == {2000, 2100} \cup {2023 + k : k \in 0..(MaxAnios - 1)}

FechasDe(anios) ==
    {f \in [a : anios, m : 1..12, d : 1..31] : f.d <= DiasDelMes(f.a, f.m)}

InitFecha ==
    /\ pc = "fecha"
    /\ TuberiaEnReposo
    /\ UnidadesEnReposo
    /\ hoy \in FechasDe(AniosDeFecha)
    /\ fecha_ayer = Ninguno

\* One call of calcular_fecha_ayer.
CalcularFecha ==
    /\ pc = "fecha"
    /\ fecha_ayer' = calcular_fecha_ayer(hoy)
    /\ pc' = "fecha_hecha"
    /\ UNCHANGED <<tuberia, hoy, bd, sel, modal>>

SpecFecha == InitFecha /\ [][CalcularFecha]_vars

\* The date a text DD/MM/YYYY denotes, read character by character.
FechaDelTexto(t) ==
    [a |-> ValorDe(t[7]) * 1000 + ValorDe(t[8]) * 100 + ValorDe(t[9]) * 10
           + ValorDe(t[10]),
     m |-> ValorDe(t[4]) * 10 + ValorDe(t[5]),
     d |-> ValorDe(t[1]) * 10 + ValorDe(t[2])]

EsTextoDeFecha(t) ==
    /\ Len(t) = 10
    /\ t[3] = "/" /\ t[6] = "/"
    /\ \A i \in {1, 2, 4, 5, 7, 8, 9, 10} : \E n \in 0..9 : Digitos[n + 1] = t[i]

\* C22: for every current date D, calcular_fecha_ayer returns the text
\* DD/MM/YYYY of the calendar day whose next day is D; 01/03/2024 gives
\* 29/02/2024 and 01/01/2025 gives 31/12/2024.
C22_YesterdayFormatted ==
    pc = "fecha_hecha" =>
        /\ EsTextoDeFecha(fecha_ayer)
        /\ FechaDelTexto(fecha_ayer).m \in 1..12
        /\ FechaDelTexto(fecha_ayer).d \in
              1..DiasDelMes(FechaDelTexto(fecha_ayer).a, FechaDelTexto(fecha_ayer).m)
        /\ DiaSiguiente(FechaDelTexto(fecha_ayer)) = hoy
        /\ hoy = [a |-> 2024, m |-> 3, d |-> 1] =>
              fecha_ayer = <<"2", "9", "/", "0", "2", "/", "2", "0", "2", "4">>
        /\ hoy = [a |-> 2025, m |-> 1, d |-> 1] =>
              fecha_ayer = <<"3", "1", "/", "1", "2", "/", "2", "0", "2", "4">>

\* C22 witness: the day before the first of March of a leap year.
C22_Witness ==
    /\ pc = "fecha_hecha"
    /\ hoy = [a |-> 2024, m |-> 3, d |-> 1]
    /\ fecha_ayer = <<"2", "9", "/", "0", "2", "/", "2", "0", "2", "4">>

\* ---------------------------------------------- cargar_dataframe_pyodbc
\* The fecha values a transformed row can carry: the business date and the
\* days around it (the column is parsed from the report's own data).
FechasDeFilas ==
    {fromordinal(toordinal(HoyDeLaCorrida) - k) : k \in 0..2}

RECURSIVE Frames(_)
Frames(n) ==
    IF n = 0 THEN {<<>>}
    ELSE Frames(n - 1)
         \cup {Append(df, f) : df \in {x \in Frames(n - 1) : Len(x) = n - 1},
                               f \in FechasDeFilas}

InitCarga ==
    /\ pc = "carga"
    /\ TuberiaEnReposo
    /\ sel = SelEnReposo
    /\ modal = ModalEnReposo
    /\ AuxEnReposo
    /\ hoy = HoyDeLaCorrida
    /\ fecha_ayer = calcular_fecha_ayer(hoy)
    /\ \E df \in Frames(MaxFilas), tabla \in {<<>>} \cup {<<f>> : f \in FechasDeFilas} :
          bd = [tabla |-> tabla, df |-> df, cargas |-> 0, filas_una |-> 0]

\* One load of the same frame for the same business date (line 1685 of a
\* run and of its repetition).
CargarDataframe ==
    /\ pc = "carga"
    /\ bd.cargas < 2
    /\ LET tabla == cargar_dataframe_pyodbc(bd.tabla, bd.df, fecha_ayer) IN
       bd' = [bd EXCEPT !.tabla = tabla,
                        !.cargas = bd.cargas + 1,
                        !.filas_una = IF bd.cargas = 0 THEN Len(tabla)
                                      ELSE bd.filas_una]
    /\ UNCHANGED <<pc, tuberia, hoy, fecha_ayer, sel, modal>>

SpecCarga == InitCarga /\ [][CargarDataframe]_vars

\* C23: loading the same frame twice for the same business date leaves the
\* table with as many rows as loading it once, whatever the fecha values
\* of the frame.
C23_SecondLoadSameCount ==
    bd.cargas = 2 => Len(bd.tabla) = bd.filas_una

\* ------------------- seleccionar_fila_reporte, manejar_modal_parametros
\* What the grid script of lines 682-703 returns, or that execute_script
\* raised.
ResultadosJS == {"OK", "GRID_NOT_FOUND", "ID_NOT_FOUND", "ERROR", "raise"}

\* Variant that searches the DOM whenever the grid API did not select.
FallbackDOM_sinGrid(resultado) == resultado # "OK"

\* Lines 708-719: the DOM search is reached for every result but "OK" and
\* "GRID_NOT_FOUND".
FallbackDOM(resultado) == resultado \notin {"OK", "GRID_NOT_FOUND"}

\* seleccionar_fila_reporte (lines 680-725). dom_ok: the row is located
\* in the DOM and the JS click on it goes through (lines 719-720);
\* otherwise wait.until raises TimeoutException. Every exception of the
\* body is caught at line 723.
seleccionar_fila_reporte(resultado, dom_ok) ==
    LET cuerpo ==
          IF resultado = "raise"
          THEN [ret |-> FALSE, dom |-> FALSE, exc |-> "WebDriverException"]
          ELSE IF resultado = "OK"
          THEN [ret |-> TRUE, dom |-> FALSE, exc |-> SinError]
          ELSE IF FallbackDOM(resultado)
          THEN [ret |-> dom_ok, dom |-> TRUE,
                exc |-> IF dom_ok THEN SinError ELSE "TimeoutException"]
          ELSE [ret |-> FALSE, dom |-> FALSE, exc |-> SinError]
    IN IF cuerpo.exc # SinError /\ "Exception" \in Superclases(cuerpo.exc)
       THEN [cuerpo EXCEPT !.ret = FALSE, !.exc = SinError]
       ELSE cuerpo

InitPasos ==
    /\ pc = "pasos"
    /\ TuberiaEnReposo
    /\ hoy = HoyDeLaCorrida
    /\ fecha_ayer = calcular_fecha_ayer(hoy)
    /\ bd = BdEnReposo
    /\ sel = [SelEnReposo EXCEPT !.pos = "inicio"]
    /\ modal = ModalEnReposo
    /\ AuxEnReposo

\* One call of seleccionar_fila_reporte.
SeleccionarFila ==
    /\ pc = "pasos"
    /\ sel.pos = "inicio"
    /\ \E resultado \in ResultadosJS, dom_ok \in BOOLEAN :
         LET r == seleccionar_fila_reporte(resultado, dom_ok) IN
         sel' = [pos |-> "hecho", resultado |-> resultado, dom_ok |-> dom_ok,
                 ret |-> r.ret, dom |-> r.dom, exc |-> r.exc]
    /\ UNCHANGED <<pc, tuberia, hoy, fecha_ayer, bd, modal>>

\* How the context of the modal comes out (lines 788-810).
Contextos == {"handle_falla", "ventana", "ventana_falla", "iframe",
              "sin_iframe", "iframe_falla"}

\* Lines 788-810: reading the handles or switching to the new window may
\* raise, and the exception leaves the function; with no new window the
\* last iframe is entered, and with none, or when the search raises, the
\* function goes on in the current context.
ModalContexto ==
    /\ pc = "pasos"
    /\ sel.pos = "hecho" /\ sel.ret
    /\ modal.pos = "reposo"
    /\ \E ctx \in Contextos :
         modal' = IF ctx \in {"handle_falla", "ventana_falla"}
                  THEN [modal EXCEPT !.pos = "hecho", !.ctx = ctx,
                                     !.ret = "excepcion",
                                     !.exc = "NoSuchWindowException"]
                  ELSE [modal EXCEPT !.pos = "params", !.ctx = ctx]
    /\ UNCHANGED <<pc, tuberia, hoy, fecha_ayer, bd, sel>>

\* Variant of the loop without the break.
SigueParams_sinBreak(n, ok) == n < 3

\* for intento in range(3) (line 826) with the break of line 846: another
\* attempt follows the n-th one.
SigueParams(n, ok) == n < 3 /\ ~ ok

\* One iteration of the loop of lines 826-851: the control is absent
\* (wait.until raises), its JS function runs, the JS function raises and
\* the JS click runs, or both raise.
ModalParams ==
    /\ pc = "pasos"
    /\ modal.pos = "params"
    /\ \E resultado \in {"no_presente", "funcion", "click_js", "ambos_fallan"} :
         LET ok == resultado \in {"funcion", "click_js"}
             n == modal.intentos + 1
         IN modal' = [modal EXCEPT
                        !.intentos = n,
                        !.params_ok = modal.params_ok \/ ok,
                        !.tras_exito = modal.tras_exito
                                       + (IF modal.params_ok THEN 1 ELSE 0),
                        !.inv_tras_fecha = modal.inv_tras_fecha \/ modal.fechas > 0,
                        !.pos = IF SigueParams(n, ok) THEN "params" ELSE "fechas"]
    /\ UNCHANGED <<pc, tuberia, hoy, fecha_ayer, bd, sel>>

\* Lines 863-930: the fields are missing, a command raises before the
\* first write, after the first write, or both fields are written. Every
\* exception is caught (lines 926-929).
ModalFechas ==
    /\ pc = "pasos"
    /\ modal.pos = "fechas"
    /\ \E resultado \in {"sin_campos", "error_antes", "error_tras_inicio", "ok"} :
         modal' = [modal EXCEPT
                     !.fechas_hecho = TRUE,
                     !.fechas = IF resultado = "ok" THEN 2
                                ELSE IF resultado = "error_tras_inicio" THEN 1
                                ELSE 0,
                     !.pos = "selector"]
    /\ UNCHANGED <<pc, tuberia, hoy, fecha_ayer, bd, sel>>

\* Lines 941-950.
selectores_ejecutar ==
    <<"//input[@id='btnEjecutar']", "//button[@id='btnEjecutar']",
      "//input[@value='Ejecutar']", "//button[contains(text(), 'Ejecutar')]",
      "//a[contains(text(), 'Ejecutar')]", "//input[@type='submit']",
      "//input[@type='button'][contains(@value, 'jecuta')]",
      "//*[contains(@onclick, 'Ejecutar')]">>

\* Variant of the loop without the break.
SigueSelectores_sinBreak(i, clickeado) == i < Len(selectores_ejecutar)

\* for selector in selectores_ejecutar (line 954) with the break of line
\* 967: the next candidate is tried.
SigueSelectores(i, clickeado) == ~ clickeado /\ i < Len(selectores_ejecutar)

\* One iteration of the loop of lines 954-973 on candidate modal.i: no
\* clickable control in time, scrolling raises, the direct click goes
\* through, the direct click raises and the synthetic one goes through, or
\* both raise.
ModalSelector ==
    /\ pc = "pasos"
    /\ modal.pos = "selector"
    /\ \E resultado \in {"timeout", "error_scroll", "click", "js_click", "ambos_fallan"} :
         LET clickeado == resultado \in {"click", "js_click"}
             i == modal.i
         IN modal' = [modal EXCEPT
                        !.probados = Append(modal.probados, i),
                        !.primero = IF modal.primero = 0 /\ resultado # "timeout"
                                    THEN i ELSE modal.primero,
                        !.emitidos = modal.emitidos
                                     + (IF resultado = "click" THEN 1
                                        ELSE IF resultado \in {"js_click", "ambos_fallan"}
                                        THEN 2 ELSE 0),
                        !.logrados = modal.logrados + (IF clickeado THEN 1 ELSE 0),
                        !.usado = IF clickeado THEN i ELSE modal.usado,
                        !.boton_clickeado = modal.boton_clickeado \/ clickeado,
                        !.i = IF SigueSelectores(i, clickeado) THEN i + 1 ELSE i,
                        !.pos = IF SigueSelectores(i, clickeado)
                                THEN "selector" ELSE "retorno"]
    /\ UNCHANGED <<pc, tuberia, hoy, fecha_ayer, bd, sel>>

\* Variant that reports success whatever the loop did.
retorno_modal_siempreTrue(boton_clickeado) == "True"

\* Lines 975-982.
retorno_modal(boton_clickeado) == IF boton_clickeado THEN "True" ELSE "False"

ModalRetorno ==
    /\ pc = "pasos"
    /\ modal.pos = "retorno"
    /\ modal' = [modal EXCEPT !.pos = "hecho",
                              !.ret = retorno_modal(modal.boton_clickeado)]
    /\ UNCHANGED <<pc, tuberia, hoy, fecha_ayer, bd, sel>>

NextPasos ==
    \/ SeleccionarFila
    \/ ModalContexto
    \/ ModalParams
    \/ ModalFechas
    \/ ModalSelector
    \/ ModalRetorno

SpecPasos == InitPasos /\ [][NextPasos]_vars

SinResolver == {"sin_iframe", "iframe_falla"}

\* C27 as stated: manejar_modal_parametros returns False when neither a
\* new window nor a frame is resolved and when no submit control is
\* clicked, and True only after a click.
C27_Original_FalseAtEachFailurePoint ==
    modal.pos = "hecho" =>
        /\ modal.ctx \in SinResolver => modal.ret = "False"
        /\ (modal.exc = SinError /\ ~ modal.boton_clickeado) => modal.ret = "False"
        /\ modal.ret = "True" => modal.boton_clickeado

\* C27: manejar_modal_parametros returns False exactly when it reached
\* the submit loop and no candidate could be clicked, True exactly when a
\* submit control was clicked; an unresolved window or frame is not a
\* failure point (the call goes on in the current context), and a failure
\* to read or switch windows leaves the call as an exception.
C27_FalseOnlyWithoutSubmitClick ==
    modal.pos = "hecho" =>
        /\ modal.ret = "False" <=> (modal.exc = SinError /\ modal.logrados = 0)
        /\ modal.ret = "True" <=> modal.logrados > 0
        /\ modal.ret = "excepcion" <=> modal.ctx \in {"handle_falla", "ventana_falla"}
        /\ modal.ctx \in SinResolver => modal.ret \in {"True", "False"}

\* C27 witness: with neither window nor frame resolved the submit control
\* was clicked and the call returned True.
C27_Witness ==
    /\ modal.pos = "hecho"
    /\ modal.ctx \in SinResolver
    /\ modal.logrados = 1
    /\ modal.ret = "True"

\* C28 as stated: the first candidate that yields a clickable control is
\* the one used and exactly one submit click goes out per call.
C28_Original_ExactlyOneClickOnFirstClickable ==
    (modal.pos = "hecho" /\ modal.exc = SinError) =>
        /\ \A j \in 1..Len(modal.probados) : modal.probados[j] = j
        /\ modal.logrados = 1
        /\ modal.usado = modal.primero

\* C28: the candidates are tried in their listed order; on each clickable
\* one the direct click is issued and the synthetic one only when the
\* direct one raised; the loop stops at the first candidate on which a
\* click went through, so at most one click succeeds per call (exactly
\* one when the call returns True, none when it returns False) and no
\* candidate is tried after it.
C28_StopsAtFirstSuccessfulClick ==
    /\ \A j \in 1..Len(modal.probados) : modal.probados[j] = j
    /\ modal.logrados <= 1
    /\ modal.emitidos <= 2 * Len(modal.probados)
    /\ modal.logrados = 1 => modal.usado = Len(modal.probados)
    /\ modal.logrados = 0 => modal.usado = 0
    /\ modal.pos = "hecho" =>
          /\ modal.ret = "True" => modal.logrados = 1
          /\ modal.ret = "False" =>
                (modal.logrados = 0
                 /\ Len(modal.probados) = Len(selectores_ejecutar))

\* C28 witness: the first clickable candidate rejected both clicks and a
\* later candidate was clicked.
C28_Witness ==
    /\ modal.pos = "hecho"
    /\ modal.ret = "True"
    /\ modal.primero # 0
    /\ modal.usado > modal.primero
    /\ modal.logrados = 1

\* C29: the 'load previous parameters' control is tried in at most 3
\* attempts, none after the first that succeeds, none after a date field
\* was written; when all 3 fail the call still assigns dates and submits.
C29_ParamsAtMostThreeThenDates ==
    /\ modal.intentos <= 3
    /\ modal.tras_exito = 0
    /\ ~ modal.inv_tras_fecha
    /\ modal.params_ok => modal.pos # "params"
    /\ (modal.pos = "params" /\ modal.intentos > 0) => ~ modal.params_ok
    /\ (modal.pos = "hecho" /\ modal.exc = SinError) =>
          /\ modal.intentos >= 1
          /\ ~ modal.params_ok => modal.intentos = 3
          /\ modal.fechas_hecho
          /\ Len(modal.probados) >= 1

\* C29 witness: all 3 attempts failed, both dates were written and the
\* submit control was clicked.
C29_Witness ==
    /\ modal.pos = "hecho"
    /\ modal.intentos = 3
    /\ ~ modal.params_ok
    /\ modal.fechas = 2
    /\ modal.ret = "True"

\* C30: seleccionar_fila_reporte never raises; it returns True when the
\* grid API selected the row; with the grid object unavailable it returns
\* False and does not search the DOM; with the id not found by the grid
\* API it searches the DOM and returns False only if that fails too.
C30_SelectRowOutcomes ==
    sel.pos = "hecho" =>
        /\ sel.exc = SinError
        /\ sel.resultado = "OK" => (sel.ret /\ ~ sel.dom)
        /\ sel.resultado = "GRID_NOT_FOUND" => (~ sel.ret /\ ~ sel.dom)
        /\ sel.resultado = "ID_NOT_FOUND" => (sel.dom /\ (sel.ret <=> sel.dom_ok))
        /\ sel.resultado = "raise" => (~ sel.ret /\ ~ sel.dom)

\* C30 witness: the grid API did not find the id, the DOM search failed
\* as well and the function returned False.
C30_Witness ==
    /\ sel.pos = "hecho"
    /\ sel.resultado = "ID_NOT_FOUND"
    /\ sel.dom
    /\ ~ sel.dom_ok
    /\ ~ sel.ret

\* ------------------------------------------------------------------------
\* One attempt of login_neotel, the failure handlers and the indicator
\* waits, each on its own
\* ------------------------------------------------------------------------

\* selenium's SwitchTo.frame(reference): the frame is entered, or
\* NoSuchFrameException is raised (the NoSuchElementException of the
\* lookup by id and by name is converted).
switch_to_frame(presente) == IF presente THEN SinError ELSE "NoSuchFrameException"

\* The class named by the except clauses of lines 573 and 582.
ClasesSinFrame == {"NoSuchElementException"}

\* login_neotel (lines 558-623), one attempt. e: what the page offers
\* (get_ok: driver.get returns; nombre: a frame with id or name "main";
\* indice: a frame of index 1; atributo: a frame element with id srcMain
\* or name main; cred_ok: the credential fields and the button respond).
login_neotel(e) ==
    IF ~ e.get_ok
    THEN \* line 559 is outside the try block
         [probadas |-> <<>>, frame |-> 0, credenciales |-> FALSE,
          captura |-> FALSE, exc |-> "WebDriverException"]
    ELSE
    LET e1 == switch_to_frame(e.nombre)
        r1 == Except(e1, ClasesSinFrame)
        t2 == r1 = SinError /\ e1 # SinError
        e2 == IF t2 THEN switch_to_frame(e.indice) ELSE SinError
        r2 == IF t2 THEN Except(e2, ClasesSinFrame \cup {"IndexError"}) ELSE r1
        t3 == t2 /\ r2 = SinError /\ e2 # SinError
        frame == IF e1 = SinError THEN 1
                 ELSE IF t2 /\ e2 = SinError THEN 2
                 ELSE IF t3 /\ e.atributo THEN 3
                 ELSE 0
        cred == r2 = SinError
        exc == IF r2 # SinError THEN r2
               ELSE IF e.cred_ok THEN SinError ELSE "TimeoutException"
    IN [probadas |-> <<1>> \o (IF t2 THEN <<2>> ELSE <<>>)
                         \o (IF t3 THEN <<3>> ELSE <<>>),
        frame |-> frame,
        credenciales |-> cred,
        \* except Exception: save_screenshot, raise (lines 620-623)
        captura |-> exc # SinError /\ "Exception" \in Superclases(exc),
        exc |-> exc]

EntradasDeLogin ==
    [get_ok : BOOLEAN, nombre : BOOLEAN, indice : BOOLEAN, atributo : BOOLEAN,
     cred_ok : BOOLEAN]

LoginUnidad ==
    /\ pc = "unidades"
    /\ login.pos = "reposo"
    /\ \E e \in EntradasDeLogin :
         LET r == login_neotel(e) IN
         login' = [pos |-> "hecho", get_ok |-> e.get_ok, nombre |-> e.nombre,
                   indice |-> e.indice, atributo |-> e.atributo,
                   cred_ok |-> e.cred_ok, probadas |-> r.probadas,
                   frame |-> r.frame, credenciales |-> r.credenciales,
                   captura |-> r.captura, exc |-> r.exc]
    /\ UNCHANGED <<pc, nucleo, hoy, fecha_ayer, bd, sel, modal, capturas, spinners>>

\* C31: login_neotel tries the frame by name, by index and by attribute
\* scan in that order; a strategy that does not find its frame hands over
\* to the next one, and with no frame found the credentials are entered in
\* the main document within the same attempt.
C31_FrameStrategiesDegrade ==
    (login.pos = "hecho" /\ login.get_ok) =>
        /\ login.probadas[1] = 1
        /\ ~ login.nombre => (Len(login.probadas) >= 2 /\ login.probadas[2] = 2)
        /\ (~ login.nombre /\ ~ login.indice) =>
              (Len(login.probadas) = 3 /\ login.probadas[3] = 3)
        /\ (~ login.nombre /\ ~ login.indice /\ ~ login.atributo) =>
              (login.frame = 0 /\ login.credenciales)

\* ---------------------------------------------------- failure handlers
\* Where a failure of each kind can arise, seen from its handler.
\*   login:      "get" (line 559, before the try of line 562), "cuerpo"
\*   reporte:    "handle" (line 1071, before the try of line 1073), "cuerpo"
\*   extraccion: "limpiar" (line 1136, before the try of line 1142),
\*               "chrome" (line 1144, driver still None), "sesion"
LugaresDeFalla ==
    [login |-> {"get", "cuerpo"},
     reporte |-> {"handle", "cuerpo"},
     extraccion |-> {"limpiar", "chrome", "sesion"}]

\* The name each handler gives its screenshot (lines 622, 1111, 1175).
nombre_de_captura(op, id) ==
    IF op = "login" THEN "error_login_debug.png"
    ELSE IF op = "reporte" THEN "error_reporte_" \o id \o ".png"
    ELSE "error_extraccion_general.png"

\* Whether the failure reaches the except clause that takes the
\* screenshot.
EnElTry(op, donde) == donde \in {"cuerpo", "sesion"}

\* What the handler of a failure does before the error propagates
\* (lines 620-623, 1109-1115, 1172-1176). save_screenshot raises when the
\* current window is closed, and what follows it in the handler is skipped.
manejador_de_falla(op, donde, ventana_abierta) ==
    IF ~ EnElTry(op, donde) THEN <<>>
    ELSE IF ~ ventana_abierta THEN <<>>
    ELSE IF op = "reporte" THEN <<"captura", "recuperacion">>
    ELSE <<"captura">>

FallaUnidad ==
    /\ pc = "unidades"
    /\ capturas.pos = "reposo"
    /\ \E op \in DOMAIN LugaresDeFalla, i \in 1..Len(REPORTES), abierta \in BOOLEAN :
         \E donde \in LugaresDeFalla[op] :
           LET ev == manejador_de_falla(op, donde, abierta) IN
           capturas' = [pos |-> "hecho", op |-> op, donde |-> donde,
                        eventos |-> ev,
                        nombre |-> IF Len(ev) > 0
                                   THEN nombre_de_captura(op, REPORTES[i]) ELSE "",
                        exc |-> IF EnElTry(op, donde) /\ ~ abierta
                                THEN "NoSuchWindowException" ELSE "WebDriverException"]
    /\ UNCHANGED <<pc, nucleo, hoy, fecha_ayer, bd, sel, modal, login, spinners>>

\* C33: every failed login attempt, every failed attempt of
\* descargar_reporte and every failure that leaves ejecutar_extraccion
\* takes a screenshot before the error propagates; the per-report
\* screenshot precedes context recovery; the file name is fixed by the
\* kind of failure and, per report, by the report id.
C33_ScreenshotAtEveryFailure ==
    capturas.pos = "hecho" =>
        /\ Len(capturas.eventos) > 0
        /\ capturas.eventos[1] = "captura"
        /\ capturas.op = "reporte" => capturas.eventos = <<"captura", "recuperacion">>
        /\ \E i \in 1..Len(REPORTES) :
              capturas.nombre = nombre_de_captura(capturas.op, REPORTES[i])

\* ------------------------------------------------------ esperar_spinner
\* The timeout each call site passes: the default of line 350 at lines 651
\* (navigation), 812 (modal opening) and 845 (after loading the previous
\* parameters), timeout=60 at line 980 (after the submission).
TimeoutDeLlamada ==
    [navegacion |-> 30, modal_abre |-> 30, params |-> 30, tras_envio |-> 60]

\* The bound esperar_spinner gives the wait on one indicator (line 368):
\* WebDriverWait(driver, 2), whatever the timeout it was called with.
cota_por_indicador(timeout) == 2

\* One call of esperar_spinner from a call site not seen yet.
EsperarSpinner ==
    /\ pc = "unidades"
    /\ \E sitio \in DOMAIN TimeoutDeLlamada :
         /\ \A k \in 1..Len(spinners) : spinners[k].sitio # sitio
         /\ spinners' = Append(spinners,
                               [sitio |-> sitio,
                                timeout |-> TimeoutDeLlamada[sitio],
                                cota |-> cota_por_indicador(TimeoutDeLlamada[sitio])])
    /\ UNCHANGED <<pc, nucleo, hoy, fecha_ayer, bd, sel, modal, login, capturas>>

InitUnidades ==
    /\ pc = "unidades"
    /\ TuberiaEnReposo
    /\ hoy = HoyDeLaCorrida
    /\ fecha_ayer = calcular_fecha_ayer(hoy)
    /\ UnidadesEnReposo

NextUnidades ==
    \/ LoginUnidad
    \/ FallaUnidad
    \/ EsperarSpinner

SpecUnidades == InitUnidades /\ [][NextUnidades]_vars

\* C35: the indicator wait made after the modal's submission uses a longer
\* per-indicator bound than the ones made during navigation and at modal
\* opening.
C35_LongerBoundAfterSubmission ==
    \A i, j \in 1..Len(spinners) :
        (/\ spinners[i].sitio = "tras_envio"
         /\ spinners[j].sitio \in {"navegacion", "modal_abre"})
        => spinners[i].cota > spinners[j].cota

\* ------------------------------------------------------------------------
\* The polling interval of the watcher
\* ------------------------------------------------------------------------

\* C34: in esperar_descarga_completa the polling interval starts at the
\* minimum, lies between the minimum and the maximum in every state, is
\* multiplied by 1.5 (capped at the maximum) by each sleep that follows an
\* unsuccessful check, never decreases and stays at the maximum once there.
C34_IntervalGrowsToCap ==
    /\ intervalo = DOWNLOAD_CHECK_INTERVAL_MIN * Escala
    /\ [](/\ intervalo >= DOWNLOAD_CHECK_INTERVAL_MIN * Escala
          /\ intervalo <= DOWNLOAD_CHECK_INTERVAL_MAX * Escala)
    /\ [][/\ intervalo' >= intervalo
          /\ intervalo = DOWNLOAD_CHECK_INTERVAL_MAX * Escala => intervalo' = intervalo
          /\ intervalo' # intervalo => wpc = "sleep"
          /\ (wpc = "sleep" /\ wpc' = "check") =>
                IF 3 * intervalo <= 2 * DOWNLOAD_CHECK_INTERVAL_MAX * Escala
                THEN 2 * intervalo' = 3 * intervalo
                ELSE intervalo' = DOWNLOAD_CHECK_INTERVAL_MAX * Escala]_vars

\* C34 witness: the interval reached the maximum and a further sleep was
\* made with it.
C34_Witness ==
    /\ intervalo = DOWNLOAD_CHECK_INTERVAL_MAX * Escala
    /\ wpc = "check"
    /\ nchecks >= 7

\* ------------------------------------------------------------------------
\* Order of the phases of a run, retries and provenance of the files
\* ------------------------------------------------------------------------

\* The last failure was one of login_neotel or of the initial call of
\* navegar_a_reportes.
FallaDeEntrada ==
    \/ ultimaDecision.op = "login"
    \/ ultimaDecision.op = "nav" /\ navLlamada = "inicial"

\* C32: the report list is navigated to only after a login attempt that
\* succeeded, and the first report attempt starts only after the initial
\* navigation succeeded; when login or the initial navigation fails for
\* good, no report is attempted, the session is closed and the exit code
\* is 1.
C32_LoginThenNavigationThenReports ==
    /\ [][/\ (pc # "nav" /\ pc' = "nav" /\ navLlamada' = "inicial") => pc = "login"
          /\ (intentados = {} /\ pc # "rep_inicio" /\ pc' = "rep_inicio") =>
                (pc = "nav" /\ navLlamada = "inicial")
          /\ intentados' # intentados => pc = "rep_inicio"]_vars
    /\ []((sys_exit # <<>> /\ FallaDeEntrada) =>
            (intentados = {} /\ quits = 1 /\ sys_exit = <<1>>))

\* C32 witness: login failed after its retries and the run ended.
C32_Witness ==
    /\ sys_exit = <<1>>
    /\ ultimaDecision.op = "login"
    /\ loginIntento = LoginPolicy.stop
    /\ intentados = {}
    /\ quits = 1

\* The attempt ended because a step reported failure by returning False.
PasoDevolvioFalse ==
    /\ pasos # <<>>
    /\ pasos[Len(pasos)].paso \in {"seleccionar", "click", "modal"}
    /\ ~ pasos[Len(pasos)].ok

\* C36: an attempt of descargar_reporte that ended because the select
\* step, the execute click or the modal handler returned False is not
\* retried; a first attempt that ended with a download timeout or a
\* browser-automation error is followed by a second attempt, which runs
\* the cycle again from the select step.
C36_StepFailureNotRetried ==
    [][/\ pc = "tenacity" =>
             /\ PasoDevolvioFalse => (pc' = "except_reporte" /\ intento' = intento)
             /\ (/\ ~ PasoDevolvioFalse
                 /\ intento = 1
                 /\ Superclases(error)
                      \cap {"WebDriverException", "TimeoutException", "TimeoutError"} # {})
                => (pc' = "rep_inicio" /\ intento' = 2 /\ pasos' = <<>>)
       /\ (pc = "rep_inicio" /\ intento = 2) => pc' = "seleccionar"]_vars

\* C37: manejar_modal_parametros clicks the submit control only after the
\* start date and the end date were both assigned, and returns True only
\* then.
C37_SubmitOnlyAfterDates ==
    /\ modal.emitidos > 0 => modal.fechas = 2
    /\ modal.ret = "True" => modal.fechas = 2

\* The downloads whose file, partial or final, has the name f.
DescargasDe(f) ==
    {d \in 1..Len(descargas) : f \in {NombreParcial(d), NombreFinal(d)}}

\* C38: the path descargar_reporte returns for a report names a file of a
\* download that was requested for that report, never one delivered late
\* by the download of an earlier report.
C38_ReturnedFileBelongsToReport ==
    pc = "retornado" =>
        /\ DescargasDe(archivo_descargado) # {}
        /\ \A d \in DescargasDe(archivo_descargado) : descargas[d].reporte = idx

C40_NoDuplicatePaths ==
    /\ \A i, j \in 1..Len(archivos_descargados) :
          archivos_descargados[i] = archivos_descargados[j] => i = j
    /\ Len(archivos_descargados) <= Len(resultados)
    /\ Len(resultados) <= Len(REPORTES)

\* C40 witness: both reports were resolved with a file each, two different
\* paths.
C40_Witness ==
    /\ Len(archivos_descargados) = Len(REPORTES)
    /\ Len(resultados) = Len(REPORTES)
    /\ archivos_descargados[1] # archivos_descargados[2]

====
